---- MODULE Spec2Model ----
(***************************************************************************)
(* PromptSys: the context-budget manager (services/contextManager.ts) and  *)
(* the hierarchy conflict detector (ConflictDetector), as state machines.  *)
(*                                                                         *)
(* Numbers.  The source computes budgets in IEEE doubles (0.3, 0.4, the    *)
(* altitude weights, 0.8, 0.5).  Here a fractional budget is an exact      *)
(* fraction <<numerator, denominator>> and Math.floor is integer division. *)
(* The budgets, priorities and list lengths enumerated below are values    *)
(* for which the double computation yields the same floors.                *)
(* An optional numeric field that is undefined is NoVal.                   *)
(***************************************************************************)
EXTENDS Integers, Sequences, FiniteSets, TLC

VARIABLES
    window,       \* ContextManager.window
    ret,          \* the last call (of any service) and the value it returned
    calls,        \* how often each ContextManager method has been called
    allocNodes,   \* the node list of the last allocateBudget call
    cdNodes,      \* the node list handed to ConflictDetector
    cdConflicts,  \* the conflicts it returned
    cdDone,       \* whether detectHierarchyConflicts has returned
    store         \* useOntologyStore: nodes, edges and conflicts

vars == <<window, ret, calls, allocNodes, cdNodes, cdConflicts, cdDone, store>>

(***************************************************************************)
(* Bounds of the model                                                     *)
(***************************************************************************)
MaxNodes == 2          \* longest node list handed to allocateBudget
MaxCompactions == 2    \* compact calls per run
MaxAllocCalls == 1     \* allocateBudget calls per run
MaxCdNodes == 3        \* longest node list handed to ConflictDetector

NoVal == -1

\* constructor arguments tried
Budgets == {100}
\* compact(targetReduction) arguments tried
Targets == {0, 2, 1000}
\* setPreserveNodes(nodeIds) arguments tried
PreserveChoices == {{}, {1}}

\* create<OntologyStore>: the store as created
initialStore == [nodes |-> <<>>, edges |-> <<>>, conflicts |-> <<>>]

(***************************************************************************)
(* Sequence helpers                                                        *)
(***************************************************************************)
RECURSIVE SumSeq(_)
SumSeq(s) == IF s = <<>> THEN 0 ELSE Head(s) + SumSeq(Tail(s))

Map(s, F(_)) == [i \in 1..Len(s) |-> F(s[i])]

RECURSIVE Flatten(_)
Flatten(ss) == IF ss = <<>> THEN <<>> ELSE Head(ss) \o Flatten(Tail(ss))

\* Array.prototype.find: index of the first element satisfying P, 0 if none
FindIndex(s, P(_)) ==
    IF \E i \in 1..Len(s) : P(s[i])
    THEN CHOOSE i \in 1..Len(s) : P(s[i]) /\ \A j \in 1..(i-1) : ~P(s[j])
    ELSE 0

\* Array.prototype.includes
Includes(s, x) == \E k \in 1..Len(s) : s[k] = x

(***************************************************************************)
(* Nodes (types: PromptNode).  Only the fields the manager reads.          *)
(***************************************************************************)
Altitudes == <<"meta", "strategic", "tactical", "operational", "implementation">>

\* n.contextPriority || 50
PriorityOrDefault(node) ==
    IF node.contextPriority = NoVal \/ node.contextPriority = 0
    THEN 50 ELSE node.contextPriority

\* node.estimatedTokens || fallback
UsedOrDefault(node, fallback) ==
    IF node.estimatedTokens = NoVal \/ node.estimatedTokens = 0
    THEN fallback ELSE node.estimatedTokens

(***************************************************************************)
(* ContextManager: allocation passes                                       *)
(***************************************************************************)
weights(altitude) ==
    CASE altitude = "meta" -> 30
      [] altitude = "strategic" -> 25
      [] altitude = "tactical" -> 20
      [] altitude = "operational" -> 15
      [] altitude = "implementation" -> 10

altitudeToPriority(altitude) ==
    CASE altitude = "meta" -> 100
      [] altitude = "strategic" -> 80
      [] altitude = "tactical" -> 60
      [] altitude = "operational" -> 40
      [] altitude = "implementation" -> 20

isAltitudeCompressible(altitude) ==
    altitude = "implementation" \/ altitude = "operational"

\* the nodes of one altitude, in input order (node.altitude || TACTICAL)
groupByAltitude(nodes, altitude) ==
    SelectSeq(nodes, LAMBDA n :
        (IF n.altitude = "none" THEN "tactical" ELSE n.altitude) = altitude)

\* a slip: the share is rounded up instead of down
allocateEqually_ceil(nodes, budget, priority, compressible) ==
    IF Len(nodes) = 0 THEN <<>>
    ELSE LET perNode == (budget[1] + budget[2] * Len(nodes) - 1)
                            \div (budget[2] * Len(nodes))
         IN  Map(nodes, LAMBDA node :
                [priority |-> priority,
                 compressible |-> compressible,
                 nodeId |-> node.id,
                 allocated |-> perNode,
                 used |-> UsedOrDefault(node, (perNode * 8) \div 10),
                 compressionRatio |-> <<1, 1>>])

\* budget is the fraction <<num, den>>
allocateEqually(nodes, budget, priority, compressible) ==
    IF Len(nodes) = 0 THEN <<>>
    ELSE LET perNode == budget[1] \div (budget[2] * Len(nodes))
         IN  Map(nodes, LAMBDA node :
                [priority |-> priority,
                 compressible |-> compressible,
                 nodeId |-> node.id,
                 allocated |-> perNode,
                 used |-> UsedOrDefault(node, (perNode * 8) \div 10),
                 compressionRatio |-> <<1, 1>>])

allocateByAltitude(nodes, budget) ==
    Flatten([k \in 1..Len(Altitudes) |->
        allocateEqually(groupByAltitude(nodes, Altitudes[k]),
                        <<budget[1] * weights(Altitudes[k]), budget[2] * 100>>,
                        altitudeToPriority(Altitudes[k]),
                        isAltitudeCompressible(Altitudes[k]))])

allocateByPriority(nodes, budget) ==
    LET totalPriority == SumSeq(Map(nodes, PriorityOrDefault))
    IN  Map(nodes, LAMBDA node :
            LET priority == PriorityOrDefault(node)
                num == priority * budget[1]
                den == totalPriority * budget[2]
            IN  [priority |-> priority,
                 compressible |-> node.compressionHint # "preserve",
                 nodeId |-> node.id,
                 allocated |-> num \div den,
                 used |-> UsedOrDefault(node, (num * 8) \div (den * 10)),
                 compressionRatio |-> <<1, 1>>])

\* a slip: the allocations of a node are added up instead of the largest kept
MergeOne_accumulate(merged, alloc) ==
    LET i == FindIndex(merged, LAMBDA m : m.nodeId = alloc.nodeId)
    IN  IF i = 0 THEN Append(merged, alloc)
        ELSE [merged EXCEPT ![i].allocated = @ + alloc.allocated]

\* a slip: the first record seen for a node is kept
MergeOne_keepFirst(merged, alloc) ==
    IF FindIndex(merged, LAMBDA m : m.nodeId = alloc.nodeId) = 0
    THEN Append(merged, alloc) ELSE merged

\* the Map of mergeAllocations after one more allocation record
MergeOne(merged, alloc) ==
    LET i == FindIndex(merged, LAMBDA m : m.nodeId = alloc.nodeId)
    IN  IF i = 0 THEN Append(merged, alloc)
        ELSE IF alloc.allocated > merged[i].allocated
             THEN [merged EXCEPT ![i] = alloc]
             ELSE merged

RECURSIVE MergeInto(_, _)
MergeInto(merged, allocs) ==
    IF allocs = <<>> THEN merged
    ELSE MergeInto(MergeOne(merged, Head(allocs)), Tail(allocs))

mergeAllocations(allocationSets) == MergeInto(<<>>, Flatten(allocationSets))

globalAllocs(nodes, totalBudget) ==
    allocateEqually(SelectSeq(nodes, LAMBDA n : n.scope = "global"),
                    <<totalBudget * 3, 10>>, 100, FALSE)

altitudeAllocs(nodes, totalBudget) ==
    allocateByAltitude(nodes, <<totalBudget * 4, 10>>)

\* a slip: the priority pass spends the whole budget, not 30% of it
priorityAllocs_wholeBudget(nodes, totalBudget) ==
    allocateByPriority(nodes, <<totalBudget, 1>>)

priorityAllocs(nodes, totalBudget) ==
    allocateByPriority(nodes, <<totalBudget * 3, 10>>)

\* a slip: remaining is not refreshed
updateUsage_staleRemaining(w) ==
    [w EXCEPT !.used = SumSeq(Map(w.allocations, LAMBDA a : a.used))]

updateUsage(w) ==
    LET used == SumSeq(Map(w.allocations, LAMBDA a : a.used))
    IN  [w EXCEPT !.used = used, !.remaining = w.totalBudget - used]

(***************************************************************************)
(* ContextManager: compaction                                              *)
(***************************************************************************)
\* a slip: the comparator is turned around (highest priority first)
InsertByPriority_descending(sorted, a) ==
    LET k == Cardinality({i \in 1..Len(sorted) : sorted[i].priority >= a.priority})
    IN  SubSeq(sorted, 1, k) \o <<a>> \o SubSeq(sorted, k + 1, Len(sorted))

\* Array.prototype.sort with (a, b) => a.priority - b.priority (stable)
InsertByPriority(sorted, a) ==
    LET k == Cardinality({i \in 1..Len(sorted) : sorted[i].priority <= a.priority})
    IN  SubSeq(sorted, 1, k) \o <<a>> \o SubSeq(sorted, k + 1, Len(sorted))

RECURSIVE SortByPriority(_)
SortByPriority(s) ==
    IF s = <<>> THEN <<>>
    ELSE InsertByPriority(SortByPriority(SubSeq(s, 1, Len(s) - 1)), s[Len(s)])

compactableNodes(w) ==
    SortByPriority(SelectSeq(w.allocations, LAMBDA a :
        a.compressible /\ a.nodeId \notin w.preserveNodeIds))

\* a slip: Math.round in place of Math.floor
compactNode_round(allocation) ==
    [nodeId |-> allocation.nodeId,
     originalTokens |-> allocation.used,
     compressedTokens |-> (allocation.used + 1) \div 2,
     compressionMethod |-> "summarize",
     canRestore |-> TRUE]

compactNode(allocation) ==
    [nodeId |-> allocation.nodeId,
     originalTokens |-> allocation.used,
     compressedTokens |-> allocation.used \div 2,
     compressionMethod |-> "summarize",
     canRestore |-> TRUE]

\* the for loop of compact: <<compacted, tokensSaved>> when it ends
RECURSIVE CompactLoop(_, _, _, _)
CompactLoop(candidates, compacted, tokensSaved, targetReduction) ==
    IF candidates = <<>> \/ tokensSaved >= targetReduction
    THEN <<compacted, tokensSaved>>
    ELSE LET c == compactNode(Head(candidates))
         IN  CompactLoop(Tail(candidates), Append(compacted, c),
                         tokensSaved + (c.originalTokens - c.compressedTokens),
                         targetReduction)

newAllocations(allocations, compacted) ==
    Map(allocations, LAMBDA alloc :
        LET i == FindIndex(compacted, LAMBDA c : c.nodeId = alloc.nodeId)
        IN  IF i # 0
            THEN [alloc EXCEPT !.used = compacted[i].compressedTokens,
                               !.compressionRatio = <<compacted[i].originalTokens,
                                                      compacted[i].compressedTokens>>]
            ELSE alloc)

\* a slip: success means "something was compacted"
compactResult_successIfAny(w, targetReduction) ==
    LET done == CompactLoop(compactableNodes(w), <<>>, 0, targetReduction)
    IN  [tokensSaved |-> done[2],
         newAllocations |-> newAllocations(w.allocations, done[1]),
         success |-> done[1] # <<>>,
         nodesCompacted |-> done[1],
         errors |-> <<>>]

compactResult(w, targetReduction) ==
    LET done == CompactLoop(compactableNodes(w), <<>>, 0, targetReduction)
    IN  [tokensSaved |-> done[2],
         newAllocations |-> newAllocations(w.allocations, done[1]),
         success |-> done[2] >= targetReduction,
         nodesCompacted |-> done[1],
         errors |-> <<>>]

compactEvent(w, result) ==
    [nodesCompacted |-> Map(result.nodesCompacted, LAMBDA c : c.nodeId),
     trigger |-> "manual",
     beforeUsed |-> w.used,
     afterUsed |-> w.used - result.tokensSaved,
     savedTokens |-> result.tokensSaved]

\* a slip: a compaction that touched no node leaves no event
pushEvent_skipEmpty(history, event) ==
    IF event.nodesCompacted = <<>> THEN history ELSE Append(history, event)

\* this.window.compactionHistory.push(event)
pushEvent(history, event) == Append(history, event)

\* compact's loop with its try/catch: the awaited compaction of the nodes in
\* failing rejects (compactNode stands in for a summarization call; the stub
\* itself never rejects).  An entry of errors is the message
\* "Failed to compact node <id>: <error>", held as the node id.
\* <<compacted, tokensSaved, errors>> when the loop ends.
\* a slip: the first failure ends the loop
RECURSIVE CompactLoopTry_abortOnError(_, _, _, _, _, _)
CompactLoopTry_abortOnError(candidates, compacted, tokensSaved, errors, targetReduction, failing) ==
    IF candidates = <<>> \/ tokensSaved >= targetReduction
    THEN <<compacted, tokensSaved, errors>>
    ELSE IF Head(candidates).nodeId \in failing
         THEN <<compacted, tokensSaved, Append(errors, Head(candidates).nodeId)>>
         ELSE LET c == compactNode(Head(candidates))
              IN  CompactLoopTry_abortOnError(
                      Tail(candidates), Append(compacted, c),
                      tokensSaved + (c.originalTokens - c.compressedTokens),
                      errors, targetReduction, failing)

RECURSIVE CompactLoopTry(_, _, _, _, _, _)
CompactLoopTry(candidates, compacted, tokensSaved, errors, targetReduction, failing) ==
    IF candidates = <<>> \/ tokensSaved >= targetReduction
    THEN <<compacted, tokensSaved, errors>>
    ELSE IF Head(candidates).nodeId \in failing
         THEN CompactLoopTry(Tail(candidates), compacted, tokensSaved,
                             Append(errors, Head(candidates).nodeId),
                             targetReduction, failing)
         ELSE LET c == compactNode(Head(candidates))
              IN  CompactLoopTry(
                      Tail(candidates), Append(compacted, c),
                      tokensSaved + (c.originalTokens - c.compressedTokens),
                      errors, targetReduction, failing)

\* errors is undefined when no compaction failed: held as <<>>
compactResultTry(w, targetReduction, failing) ==
    LET done == CompactLoopTry(compactableNodes(w), <<>>, 0, <<>>,
                               targetReduction, failing)
    IN  [tokensSaved |-> done[2],
         newAllocations |-> newAllocations(w.allocations, done[1]),
         success |-> done[2] >= targetReduction,
         nodesCompacted |-> done[1],
         errors |-> done[3]]

(***************************************************************************)
(* ContextManager: advice                                                  *)
(***************************************************************************)
\* compactionThreshold is held in percent: used / totalBudget > threshold
\* a slip: utilization equal to the threshold already asks for compaction
shouldCompact_geq(w) ==
    IF ~w.compactionEnabled THEN FALSE
    ELSE w.used * 100 >= w.compactionThreshold * w.totalBudget

shouldCompact(w) ==
    IF ~w.compactionEnabled THEN FALSE
    ELSE w.used * 100 > w.compactionThreshold * w.totalBudget

\* a.compressionRatio && a.compressionRatio > 2.0, the ratio being
\* originalTokens / compressedTokens (x/0 is Infinity, 0/0 is NaN)
HighlyCompressed(a) ==
    LET o == a.compressionRatio[1]
        c == a.compressionRatio[2]
    IN  IF c = 0 THEN o > 0 ELSE o > 2 * c

getOptimizationRecommendations(w) ==
    LET overallocated == SelectSeq(w.allocations, LAMBDA a : a.used > a.allocated)
        highlyCompressed == SelectSeq(w.allocations, HighlyCompressed)
    IN  (IF w.used * 10 > 9 * w.totalBudget THEN <<"critically high">>
         ELSE IF w.used * 10 > 8 * w.totalBudget THEN <<"high">>
         ELSE <<>>)
        \o (IF Len(overallocated) > 0
            THEN << <<"exceed their allocation", Len(overallocated)>> >> ELSE <<>>)
        \o (IF Len(highlyCompressed) > 0
            THEN << <<"heavily compressed", Len(highlyCompressed)>> >> ELSE <<>>)

(***************************************************************************)
(* ContextManager: the object                                              *)
(***************************************************************************)
Constructor(totalBudget) ==
    [used |-> 0,
     totalBudget |-> totalBudget,
     allocations |-> <<>>,
     remaining |-> totalBudget,
     preserveNodeIds |-> {},
     compactionEnabled |-> TRUE,
     compactionThreshold |-> 80,
     compactionHistory |-> <<>>]

NoCalls == [allocateBudget |-> 0, compact |-> 0]

\* a slip: allocateBudget compacts by itself once usage is over the threshold
AllocateBudget_autoCompact(nodes) ==
    /\ calls.allocateBudget < MaxAllocCalls
    /\ LET merged == mergeAllocations(<<globalAllocs(nodes, window.totalBudget),
                                        altitudeAllocs(nodes, window.totalBudget),
                                        priorityAllocs(nodes, window.totalBudget)>>)
           w1 == updateUsage([window EXCEPT !.allocations = merged])
           result == compactResult(w1, w1.used - w1.totalBudget)
       IN  /\ window' = IF shouldCompact(w1)
                        THEN updateUsage(
                                [w1 EXCEPT
                                    !.compactionHistory =
                                        pushEvent(@, compactEvent(w1, result)),
                                    !.allocations = result.newAllocations])
                        ELSE w1
           /\ ret' = [op |-> "allocateBudget", arg |-> <<>>, value |-> merged]
    /\ allocNodes' = nodes
    /\ calls' = [calls EXCEPT !.allocateBudget = @ + 1]
    /\ UNCHANGED <<cdNodes, cdConflicts, cdDone, store>>

AllocateBudget(nodes) ==
    /\ calls.allocateBudget < MaxAllocCalls
    /\ LET merged == mergeAllocations(<<globalAllocs(nodes, window.totalBudget),
                                        altitudeAllocs(nodes, window.totalBudget),
                                        priorityAllocs(nodes, window.totalBudget)>>)
       IN  /\ window' = updateUsage([window EXCEPT !.allocations = merged])
           /\ ret' = [op |-> "allocateBudget", arg |-> <<>>, value |-> merged]
    /\ allocNodes' = nodes
    /\ calls' = [calls EXCEPT !.allocateBudget = @ + 1]
    /\ UNCHANGED <<cdNodes, cdConflicts, cdDone, store>>

SetPreserveNodes(nodeIds) ==
    /\ window' = [window EXCEPT !.preserveNodeIds = nodeIds]
    /\ ret' = [op |-> "setPreserveNodes", arg |-> nodeIds, value |-> <<>>]
    /\ UNCHANGED <<calls, allocNodes, cdNodes, cdConflicts, cdDone, store>>

Compact(targetReduction) ==
    /\ calls.compact < MaxCompactions
    /\ LET result == compactResult(window, targetReduction)
       IN  /\ window' = updateUsage(
                  [window EXCEPT
                      !.compactionHistory = pushEvent(@, compactEvent(window, result)),
                      !.allocations = result.newAllocations])
           /\ ret' = [op |-> "compact", arg |-> targetReduction, value |-> result]
    /\ calls' = [calls EXCEPT !.compact = @ + 1]
    /\ UNCHANGED <<allocNodes, cdNodes, cdConflicts, cdDone, store>>

\* compact(targetReduction) while the compaction of the nodes in failing rejects
CompactTry(targetReduction, failing) ==
    /\ calls.compact < MaxCompactions
    /\ LET result == compactResultTry(window, targetReduction, failing)
       IN  /\ window' = updateUsage(
                  [window EXCEPT
                      !.compactionHistory = pushEvent(@, compactEvent(window, result)),
                      !.allocations = result.newAllocations])
           /\ ret' = [op |-> "compact", arg |-> targetReduction, value |-> result]
    /\ calls' = [calls EXCEPT !.compact = @ + 1]
    /\ UNCHANGED <<allocNodes, cdNodes, cdConflicts, cdDone, store>>

ShouldCompact ==
    /\ ret' = [op |-> "shouldCompact", arg |-> <<>>, value |-> shouldCompact(window)]
    /\ UNCHANGED <<window, calls, allocNodes, cdNodes, cdConflicts, cdDone, store>>

GetOptimizationRecommendations ==
    /\ ret' = [op |-> "getOptimizationRecommendations", arg |-> <<>>,
               value |-> getOptimizationRecommendations(window)]
    /\ UNCHANGED <<window, calls, allocNodes, cdNodes, cdConflicts, cdDone, store>>

\* import(data): the whole window is replaced by the parsed one
Import(data) ==
    /\ window' = data
    /\ ret' = [op |-> "import", arg |-> <<>>, value |-> <<>>]
    /\ UNCHANGED <<calls, allocNodes, cdNodes, cdConflicts, cdDone, store>>

(***************************************************************************)
(* Inputs of the ContextManager runs                                       *)
(***************************************************************************)
\* <<scope, altitude, contextPriority, estimatedTokens, compressionHint>>
NodeShapes ==
    { <<"global", "meta", 100, NoVal, "preserve">>,
      <<"task", "implementation", 10, NoVal, "preserve">>,
      <<"task", "operational", NoVal, 90, "summarize">> }

WithIds(shapes) ==
    [i \in 1..Len(shapes) |->
        [contextPriority |-> shapes[i][3],
         estimatedTokens |-> shapes[i][4],
         altitude |-> shapes[i][2],
         id |-> i,
         compressionHint |-> shapes[i][5],
         scope |-> shapes[i][1]]]

Init ==
    /\ window \in {Constructor(b) : b \in Budgets}
    /\ ret = [op |-> "constructor", arg |-> <<>>, value |-> <<>>]
    /\ calls = NoCalls
    /\ allocNodes = <<>>
    /\ cdNodes = <<>>
    /\ cdConflicts = <<>>
    /\ cdDone = FALSE
    /\ store = initialStore

Next ==
    \/ \E n \in 0..MaxNodes : \E shapes \in [1..n -> NodeShapes] :
            AllocateBudget(WithIds(shapes))
    \/ \E nodeIds \in PreserveChoices : SetPreserveNodes(nodeIds)
    \/ \E targetReduction \in Targets : Compact(targetReduction)
    \/ ShouldCompact
    \/ GetOptimizationRecommendations

Spec == Init /\ [][Next]_vars

(***************************************************************************)
(* allocateBudget as a function of its input: one call on a fresh manager, *)
(* over every node list of a wider domain                                  *)
(***************************************************************************)
AllocBudgets == {7, 25, 1000}

WideShapes ==
    {"global", "task"}
        \X {"meta", "strategic", "tactical", "operational", "implementation", "none"}
        \X {0, 10, 100}
        \X {NoVal}
        \X {"summarize"}

InitAlloc ==
    /\ window \in {Constructor(b) : b \in AllocBudgets}
    /\ ret = [op |-> "constructor", arg |-> <<>>, value |-> <<>>]
    /\ calls = NoCalls
    /\ allocNodes = <<>>
    /\ cdNodes = <<>>
    /\ cdConflicts = <<>>
    /\ cdDone = FALSE
    /\ store = initialStore

AllocateOnce(nodes) ==
    /\ calls.allocateBudget = 0
    /\ AllocateBudget(nodes)

NextAlloc ==
    /\ calls.allocateBudget = 0
    /\ \E n \in 0..MaxNodes : \E shapes \in [1..n -> WideShapes] :
            AllocateOnce(WithIds(shapes))

SpecAlloc == InitAlloc /\ [][NextAlloc]_vars

(***************************************************************************)
(* SpecTry: compact while single compactions fail.  Every node is          *)
(* compressible, so that a failure can have candidates after it.           *)
(***************************************************************************)
\* <<scope, altitude, contextPriority, estimatedTokens, compressionHint>>
TryShapes ==
    { <<"task", "operational", NoVal, 90, "summarize">>,
      <<"task", "operational", 10, 40, "summarize">>,
      <<"global", "meta", 100, NoVal, "preserve">> }

TryTargets == {0, 10, 1000}

FailingChoices == {{}, {1}, {2}, {1, 2}}

NextTry ==
    \/ \E n \in 0..MaxNodes : \E shapes \in [1..n -> TryShapes] :
            AllocateBudget(WithIds(shapes))
    \/ \E targetReduction \in TryTargets : \E failing \in FailingChoices :
            CompactTry(targetReduction, failing)

SpecTry == Init /\ [][NextTry]_vars

(***************************************************************************)
(* SpecLow: allocateBudget and compact on a small budget, where            *)
(* allocations use 0, 1 or 3 tokens and candidates differ in priority.     *)
(***************************************************************************)
LowBudgets == {7}

\* <<scope, altitude, contextPriority, estimatedTokens, compressionHint>>
LowShapes ==
    { <<"task", "operational", NoVal, NoVal, "summarize">>,
      <<"task", "implementation", 10, 3, "summarize">>,
      <<"global", "meta", 100, NoVal, "preserve">> }

LowTargets == {0, 1, 2, 1000}

InitLow ==
    /\ window \in {Constructor(b) : b \in LowBudgets}
    /\ ret = [op |-> "constructor", arg |-> <<>>, value |-> <<>>]
    /\ calls = NoCalls
    /\ allocNodes = <<>>
    /\ cdNodes = <<>>
    /\ cdConflicts = <<>>
    /\ cdDone = FALSE
    /\ store = initialStore

NextLow ==
    \/ \E n \in 0..MaxNodes : \E shapes \in [1..n -> LowShapes] :
            AllocateBudget(WithIds(shapes))
    \/ \E nodeIds \in PreserveChoices : SetPreserveNodes(nodeIds)
    \/ \E targetReduction \in LowTargets : Compact(targetReduction)

SpecLow == InitLow /\ [][NextLow]_vars

(***************************************************************************)
(* SpecSC: shouldCompact over restored windows.  import is the only way to *)
(* a window with compaction disabled or another threshold; the windows     *)
(* restored here are ones export can have written (used and remaining      *)
(* agree with the allocations).                                            *)
(***************************************************************************)
ImportBudgets == {10, 20}

\* compactionThreshold in percent
ImportThresholds == {50, 80, 100}

ImportWindowsOf(b) ==
    { [used |-> u,
       totalBudget |-> b,
       allocations |->
           IF u = 0 THEN <<>>
           ELSE << [priority |-> 50, compressible |-> TRUE, nodeId |-> 1,
                    allocated |-> b, used |-> u, compressionRatio |-> <<1, 1>>] >>,
       remaining |-> b - u,
       preserveNodeIds |-> {},
       compactionEnabled |-> e,
       compactionThreshold |-> t,
       compactionHistory |-> <<>>] :
      u \in 0..b, e \in BOOLEAN, t \in ImportThresholds }

ImportWindows == UNION {ImportWindowsOf(b) : b \in ImportBudgets}

NextSC ==
    \/ \E data \in ImportWindows : Import(data)
    \/ ShouldCompact

SpecSC == Init /\ [][NextSC]_vars

(***************************************************************************)
(* SpecHist: the runs of Spec, with import of a window exported by a fresh *)
(* manager among the operations.                                           *)
(***************************************************************************)
RestoredWindows == {Constructor(b) : b \in Budgets}

NextHist ==
    \/ Next
    \/ \E data \in RestoredWindows : Import(data)

SpecHist == Init /\ [][NextHist]_vars

(***************************************************************************)
(* ConflictDetector.detectHierarchyConflicts.  A node is its id, its        *)
(* parentId (0 when it has none), altitude and scope ("none" when absent), *)
(* contextPriority and depth (NoVal when undefined); ids are the positions *)
(* in the list, and a parentId may name a node that is not in the list.    *)
(* cdConflicts holds the list the call returns; a conflict's id is the     *)
(* pair <<prefix, node id>> of its template string.                        *)
(***************************************************************************)
\* Array.prototype.indexOf on a list without repetitions (0-based)
IndexOf(order, x) == (CHOOSE k \in 1..Len(order) : order[k] = x) - 1

\* a slip: the scale is written from the most concrete level upwards
altitudeOrder_reversed ==
    <<"implementation", "operational", "tactical", "strategic", "meta">>

altitudeOrder == <<"meta", "strategic", "tactical", "operational", "implementation">>

scopeOrder == <<"local", "conditional", "task", "session", "global">>

\* a slip: a lookup that finds nothing falls back to the first node
FindNode_firstIfMissing(nodes, id) ==
    IF FindIndex(nodes, LAMBDA n : n.id = id) = 0 /\ nodes # <<>> THEN 1
    ELSE FindIndex(nodes, LAMBDA n : n.id = id)

\* nodes.find(n => n.id === id): the index, 0 for undefined
FindNode(nodes, id) == FindIndex(nodes, LAMBDA n : n.id = id)

InPath(path, id) == \E k \in 1..Len(path) : path[k] = id

\* path.slice(path.indexOf(id))
SliceFrom(path, id) ==
    SubSeq(path, FindIndex(path, LAMBDA x : x = id), Len(path))

\* the while loop: <<visited, conflicts>> when it ends; current is an index
\* into nodes, 0 for undefined
RECURSIVE CycleWalk(_, _, _, _, _)
CycleWalk(nodes, current, path, visited, conflicts) ==
    IF current = 0 \/ nodes[current].id \in visited
    THEN <<visited, conflicts>>
    ELSE IF InPath(path, nodes[current].id)
    THEN <<visited,
           Append(conflicts,
                  [id |-> <<"parent-cycle", nodes[current].id>>,
                   nodeIds |-> SliceFrom(path, nodes[current].id),
                   type |-> "circular_dependency",
                   severity |-> "high"])>>
    ELSE CycleWalk(nodes,
                   IF nodes[current].parentId # 0
                   THEN FindNode(nodes, nodes[current].parentId) ELSE 0,
                   Append(path, nodes[current].id),
                   visited \cup {nodes[current].id},
                   conflicts)

\* nodes.forEach from position k on
RECURSIVE CycleForEach(_, _, _, _)
CycleForEach(nodes, k, visited, conflicts) ==
    IF k > Len(nodes) THEN conflicts
    ELSE IF nodes[k].id \in visited
    THEN CycleForEach(nodes, k + 1, visited, conflicts)
    ELSE LET w == CycleWalk(nodes, k, <<>>, visited, conflicts)
         IN  CycleForEach(nodes, k + 1, w[1], w[2])

detectCircularParentReferences(nodes) == CycleForEach(nodes, 1, {}, <<>>)

\* the conflict one forEach round of a parent/child detector pushes:
\* <<>> or a one-element list
PairConflict(nodes, k, applies, prefix, severity) ==
    IF ~applies THEN <<>>
    ELSE << [id |-> <<prefix, nodes[k].id>>,
             nodeIds |-> <<nodes[k].id, nodes[FindNode(nodes, nodes[k].parentId)].id>>,
             type |-> "ambiguous_relationship",
             severity |-> severity] >>

\* a slip: priorities are tested for truthiness, so 0 counts as undefined
detectParentChildPriorityMismatch_truthy(nodes) ==
    Flatten([k \in 1..Len(nodes) |->
        LET node == nodes[k]
            p == IF node.parentId # 0 THEN FindNode(nodes, node.parentId) ELSE 0
        IN  PairConflict(nodes, k,
                /\ node.parentId # 0 /\ node.contextPriority \notin {NoVal, 0}
                /\ p # 0 /\ nodes[p].contextPriority \notin {NoVal, 0}
                /\ node.contextPriority > nodes[p].contextPriority,
                "priority-mismatch", "medium")])

detectParentChildPriorityMismatch(nodes) ==
    Flatten([k \in 1..Len(nodes) |->
        LET node == nodes[k]
            p == IF node.parentId # 0 THEN FindNode(nodes, node.parentId) ELSE 0
        IN  PairConflict(nodes, k,
                /\ node.parentId # 0 /\ node.contextPriority # NoVal
                /\ p # 0 /\ nodes[p].contextPriority # NoVal
                /\ node.contextPriority > nodes[p].contextPriority,
                "priority-mismatch", "medium")])

detectAltitudeInconsistency(nodes) ==
    Flatten([k \in 1..Len(nodes) |->
        LET node == nodes[k]
            p == IF node.parentId # 0 THEN FindNode(nodes, node.parentId) ELSE 0
        IN  PairConflict(nodes, k,
                /\ node.parentId # 0 /\ node.altitude # "none"
                /\ p # 0 /\ nodes[p].altitude # "none"
                /\ IndexOf(altitudeOrder, node.altitude)
                      < IndexOf(altitudeOrder, nodes[p].altitude),
                "altitude-inconsistency", "high")])

detectScopeConflicts(nodes) ==
    Flatten([k \in 1..Len(nodes) |->
        LET node == nodes[k]
            p == IF node.parentId # 0 THEN FindNode(nodes, node.parentId) ELSE 0
        IN  PairConflict(nodes, k,
                /\ node.parentId # 0 /\ node.scope # "none"
                /\ p # 0 /\ nodes[p].scope # "none"
                /\ IndexOf(scopeOrder, node.scope)
                      > IndexOf(scopeOrder, nodes[p].scope),
                "scope-conflict", "medium")])

\* a slip: depths are tested for truthiness, so depth 0 counts as undefined
detectDepthInconsistency_truthy(nodes) ==
    Flatten([k \in 1..Len(nodes) |->
        LET node == nodes[k]
            p == IF node.parentId # 0 THEN FindNode(nodes, node.parentId) ELSE 0
        IN  IF /\ node.parentId # 0 /\ node.depth \notin {NoVal, 0}
               /\ p # 0 /\ nodes[p].depth \notin {NoVal, 0}
               /\ node.depth # nodes[p].depth + 1
            THEN << [id |-> <<"depth-inconsistency", node.id>>,
                     nodeIds |-> <<node.id, nodes[p].id>>,
                     type |-> "ambiguous_relationship",
                     severity |-> "low",
                     expectedDepth |-> nodes[p].depth + 1] >>
            ELSE <<>>])

\* the description of a depth conflict states expectedDepth
detectDepthInconsistency(nodes) ==
    Flatten([k \in 1..Len(nodes) |->
        LET node == nodes[k]
            p == IF node.parentId # 0 THEN FindNode(nodes, node.parentId) ELSE 0
        IN  IF /\ node.parentId # 0 /\ node.depth # NoVal
               /\ p # 0 /\ nodes[p].depth # NoVal
               /\ node.depth # nodes[p].depth + 1
            THEN << [id |-> <<"depth-inconsistency", node.id>>,
                     nodeIds |-> <<node.id, nodes[p].id>>,
                     type |-> "ambiguous_relationship",
                     severity |-> "low",
                     expectedDepth |-> nodes[p].depth + 1] >>
            ELSE <<>>])

\* nodes.some(n => n.parentId || n.altitude || n.scope)
hasHierarchy(nodes) ==
    \E k \in 1..Len(nodes) :
        nodes[k].parentId # 0 \/ nodes[k].altitude # "none" \/ nodes[k].scope # "none"

\* a slip: a list without hierarchy fields is itself reported
detectHierarchyConflicts_flagFlat(nodes) ==
    IF nodes # <<>> /\ ~hasHierarchy(nodes)
    THEN << [id |-> <<"no-hierarchy", nodes[1].id>>,
             nodeIds |-> [k \in 1..Len(nodes) |-> nodes[k].id],
             type |-> "ambiguous_relationship",
             severity |-> "low"] >>
    ELSE <<>>

detectHierarchyConflicts(nodes) ==
    IF ~hasHierarchy(nodes) THEN <<>>
    ELSE detectParentChildPriorityMismatch(nodes)
            \o detectAltitudeInconsistency(nodes)
            \o detectScopeConflicts(nodes)
            \o detectCircularParentReferences(nodes)
            \o detectDepthInconsistency(nodes)

DetectHierarchyConflicts ==
    /\ ~cdDone
    /\ cdConflicts' = detectHierarchyConflicts(cdNodes)
    /\ cdDone' = TRUE
    /\ UNCHANGED <<window, ret, calls, allocNodes, cdNodes, store>>

\* parentId: none, a node of the list, or an id that is not in the list
\* the nodes carry no altitude, scope, contextPriority or depth
CdNodeLists(n) ==
    { [i \in 1..n |->
          [contextPriority |-> NoVal, altitude |-> "none", id |-> i,
           scope |-> "none", parentId |-> parents[i], depth |-> NoVal]] :
        parents \in [1..n -> 0..(n + 1)] }

InitCD ==
    /\ window = Constructor(100)
    /\ ret = [op |-> "constructor", arg |-> <<>>, value |-> <<>>]
    /\ calls = NoCalls
    /\ allocNodes = <<>>
    /\ \E n \in 0..MaxCdNodes : cdNodes \in CdNodeLists(n)
    /\ cdConflicts = <<>>
    /\ cdDone = FALSE
    /\ store = initialStore

NextCD == DetectHierarchyConflicts

SpecCD == InitCD /\ [][NextCD]_vars

(***************************************************************************)
(* SpecHC: detectHierarchyConflicts over node lists that carry the fields  *)
(* its parent/child detectors read.  A list varies one field over its      *)
(* whole range, or is built from nodes that carry all of them.             *)
(***************************************************************************)
MaxHcNodes == 2        \* longest node list with hierarchy fields

\* <<altitude, scope, contextPriority, depth>>
HcAltitudeShapes ==
    {<<a, "none", NoVal, NoVal>> :
        a \in {"none", "meta", "strategic", "tactical", "operational", "implementation"}}

HcScopeShapes ==
    {<<"none", sc, NoVal, NoVal>> :
        sc \in {"none", "global", "session", "task", "local", "conditional"}}

HcPriorityShapes == {<<"none", "none", pr, NoVal>> : pr \in {NoVal, 0, 50, 80}}

HcDepthShapes == {<<"none", "none", NoVal, d>> : d \in {NoVal, 0, 1, 5}}

HcFullShapes ==
    { <<"strategic", "session", 50, 1>>,
      <<"meta", "global", 80, 5>>,
      <<"tactical", "task", 0, 2>> }

HcShapeSets ==
    {HcAltitudeShapes, HcScopeShapes, HcPriorityShapes, HcDepthShapes, HcFullShapes}

HcNodes(shapes, parents) ==
    [i \in 1..Len(shapes) |->
        [contextPriority |-> shapes[i][3], altitude |-> shapes[i][1], id |-> i,
         scope |-> shapes[i][2], parentId |-> parents[i], depth |-> shapes[i][4]]]

InitHC ==
    /\ window = Constructor(100)
    /\ ret = [op |-> "constructor", arg |-> <<>>, value |-> <<>>]
    /\ calls = NoCalls
    /\ allocNodes = <<>>
    /\ \E n \in 0..MaxHcNodes : \E shapeSet \in HcShapeSets :
          \E shapes \in [1..n -> shapeSet] : \E parents \in [1..n -> 0..(n + 1)] :
              cdNodes = HcNodes(shapes, parents)
    /\ cdConflicts = <<>>
    /\ cdDone = FALSE
    /\ store = initialStore

SpecHC == InitHC /\ [][NextCD]_vars

(***************************************************************************)
(* ConflictDetector.detectCircularDependencies: a depth-first search over  *)
(* the depends_on and precedes edges.  A node is its id; an edge carries   *)
(* id, source, target and type.  The search state is visited,              *)
(* recursionStack, pathMap (<<>> for a node not yet entered) and the       *)
(* conflicts pushed so far; dfs returns it with its boolean result.        *)
(***************************************************************************)
MaxDepNodes == 3       \* longest node list handed to detectCircularDependencies
MaxDepEdges == 3       \* longest edge list handed to it

IsDependency(e) == e.type = "depends_on" \/ e.type = "precedes"

\* cyclePath.slice(cyclePath.indexOf(target)): indexOf gives -1 when target
\* is not on the path, and slice(-1) is the last element
CycleNodes(cyclePath, target) ==
    IF \E k \in 1..Len(cyclePath) : cyclePath[k] = target
    THEN SubSeq(cyclePath, IndexOf(cyclePath, target) + 1, Len(cyclePath))
    ELSE SubSeq(cyclePath, Len(cyclePath), Len(cyclePath))

circularConflict(nodeId, cycleNodes, edges) ==
    [id |-> <<"circular", nodeId>>,
     nodeIds |-> cycleNodes,
     type |-> "circular_dependency",
     severity |-> "high",
     edgeIds |-> Map(SelectSeq(edges, LAMBDA e :
                        /\ Includes(cycleNodes, e.source)
                        /\ Includes(cycleNodes, e.target)),
                     LAMBDA e : e.id)]

RECURSIVE dfs(_, _, _, _)
RECURSIVE dfsEdges(_, _, _, _)
\* the for loop of dfs(nodeId, ...) over the outgoing edges still to do
dfsEdges(nodeId, outgoingEdges, edges, st) ==
    IF outgoingEdges = <<>> THEN [st |-> st, found |-> FALSE]
    ELSE LET target == Head(outgoingEdges).target
         IN  IF target \notin st.visited
             THEN LET r == dfs(target, st.pathMap[nodeId], edges, st)
                  IN  IF r.found THEN r
                      ELSE dfsEdges(nodeId, Tail(outgoingEdges), edges, r.st)
             ELSE IF target \in st.recursionStack
                  THEN [st |-> [st EXCEPT !.conflicts =
                                   Append(@, circularConflict(nodeId,
                                       CycleNodes(st.pathMap[nodeId], target), edges))],
                        found |-> TRUE]
                  ELSE dfsEdges(nodeId, Tail(outgoingEdges), edges, st)

\* return true leaves nodeId on recursionStack; only return false removes it
dfs(nodeId, path, edges, st) ==
    LET entered == [st EXCEPT !.visited = @ \cup {nodeId},
                              !.recursionStack = @ \cup {nodeId},
                              !.pathMap[nodeId] = Append(path, nodeId)]
        r == dfsEdges(nodeId,
                      SelectSeq(edges, LAMBDA e : e.source = nodeId /\ IsDependency(e)),
                      edges, entered)
    IN  IF r.found THEN r
        ELSE [r EXCEPT !.st.recursionStack = @ \ {nodeId}]

\* nodes.forEach(node => { if (!visited.has(node.id)) dfs(node.id, []) })
RECURSIVE dfsForEach(_, _, _)
dfsForEach(nodes, edges, st) ==
    IF nodes = <<>> THEN st
    ELSE IF Head(nodes) \in st.visited THEN dfsForEach(Tail(nodes), edges, st)
         ELSE dfsForEach(Tail(nodes), edges, dfs(Head(nodes), <<>>, edges, st).st)

detectCircularDependencies(nodes, edges) ==
    dfsForEach(nodes, edges,
               [conflicts |-> <<>>, visited |-> {},
                pathMap |-> [id \in 1..MaxDepNodes + 1 |-> <<>>],
                recursionStack |-> {}]).conflicts

DetectCircularDependencies(nodes, edges) ==
    /\ ret' = [op |-> "detectCircularDependencies", arg |-> <<nodes, edges>>,
               value |-> detectCircularDependencies(nodes, edges)]
    /\ UNCHANGED <<window, calls, allocNodes, cdNodes, cdConflicts, cdDone, store>>

\* the node lists: every order of the ids 1..n
DepNodeLists(n) ==
    {order \in [1..n -> 1..n] : \A i \in 1..n : \A j \in 1..n :
                                    order[i] = order[j] => i = j}

DepEdgeTypes == {"depends_on", "related_to"}

\* edge lists between the nodes 1..n; the ids follow the position
DepEdgeLists(n) ==
    UNION {{[k \in 1..m |-> [id |-> k, type |-> ends[k][3],
                             target |-> ends[k][2], source |-> ends[k][1]]] :
               ends \in [1..m -> (1..n) \X (1..n) \X DepEdgeTypes]} :
           m \in 0..MaxDepEdges}

\* the detector is a static function without state: one call per run
NextDep ==
    /\ ret.op = "constructor"
    /\ \E n \in 0..MaxDepNodes : \E nodes \in DepNodeLists(n) :
           \E edges \in DepEdgeLists(n) : DetectCircularDependencies(nodes, edges)

SpecDep == Init /\ [][NextDep]_vars

(***************************************************************************)
(* HierarchyAnalyzer.  A node carries id, parentId (0: none), childIds,    *)
(* depth, isTemplate, category, scope, altitude, specificity in tenths,    *)
(* estimatedTokens and tokenBudget (NoVal: undefined); an edge is          *)
(* <<source, target>>.  A quotient a / b is the pair <<a, b>>; <<0, 0>> is *)
(* NaN.  Of the metrics, the structural ones and those that divide are     *)
(* carried: the distribution tables, the specificity and flexibility       *)
(* ranges, the token totals, cyclomaticComplexity, redundancyScore and     *)
(* conflictDensity are left out, and so is the recommendations list.       *)
(***************************************************************************)
\* what a call leaves behind when the engine's call stack overflows
RangeError == -1

IsNaN(q) == q[1] = 0 /\ q[2] = 0

\* Math.max(...xs) and Math.min(...xs) of a non-empty list
MaxOf(xs) == CHOOSE m \in {xs[k] : k \in 1..Len(xs)} : \A k \in 1..Len(xs) : xs[k] <= m

MinOf(xs) == CHOOSE m \in {xs[k] : k \in 1..Len(xs)} : \A k \in 1..Len(xs) : m <= xs[k]

\* frames is the room left on the call stack.  A chain of calls longer than
\* the node list has come back to a node it is already inside, and then
\* repeats for ever: the stack overflows and the call throws.
RECURSIVE calculateSubtreeDepth(_, _, _)
calculateSubtreeDepth(nodeId, nodes, frames) ==
    LET i == FindNode(nodes, nodeId)
    IN  IF frames = 0 THEN RangeError
        ELSE IF i = 0 \/ nodes[i].childIds = <<>> THEN 1
        ELSE LET childDepths == [k \in 1..Len(nodes[i].childIds) |->
                     calculateSubtreeDepth(nodes[i].childIds[k], nodes, frames - 1)]
             IN  IF \E k \in 1..Len(childDepths) : childDepths[k] = RangeError
                 THEN RangeError
                 ELSE 1 + MaxOf(childDepths)

\* the depths calculateBalanceFactor collects for the roots
RootDepths(nodes) ==
    Map(SelectSeq(nodes, LAMBDA n : n.parentId = 0),
        LAMBDA root : calculateSubtreeDepth(root.id, nodes, Len(nodes) + 1))

Throws(nodes) ==
    \E k \in 1..Len(RootDepths(nodes)) : RootDepths(nodes)[k] = RangeError

calculateBalanceFactor(nodes) ==
    LET depths == RootDepths(nodes)
    IN  IF depths = <<>> THEN <<1, 1>>
        ELSE IF MaxOf(depths) = 0 THEN <<1, 1>>
        ELSE <<MinOf(depths), MaxOf(depths)>>

DepthOrZero(n) == IF n.depth = NoVal THEN 0 ELSE n.depth

calculateBudgetUtilization(nodes) ==
    LET budgeted == SelectSeq(nodes, LAMBDA n : n.tokenBudget \notin {NoVal, 0})
        totalBudget == SumSeq(Map(budgeted, LAMBDA n : n.tokenBudget))
        totalUsed == SumSeq(Map(budgeted, LAMBDA n :
                        IF n.estimatedTokens = NoVal THEN 0 ELSE n.estimatedTokens))
    IN  IF budgeted = <<>> THEN <<0, 1>>
        ELSE IF totalBudget > 0 THEN <<totalUsed, totalBudget>> ELSE <<0, 1>>

calculateCoupling(nodes, edges) ==
    IF Len(nodes) <= 1 THEN <<0, 1>>
    ELSE <<2 * Len(edges), Len(nodes) * (Len(nodes) - 1)>>

\* (1 - categories/n + 1 - scopes/n) / 2
calculateCohesion(nodes) ==
    LET categories == {nodes[k].category : k \in 1..Len(nodes)}
        scopes == {IF nodes[k].scope = "none" THEN "task" ELSE nodes[k].scope :
                      k \in 1..Len(nodes)}
    IN  IF IsNaN(<<Cardinality(categories), Len(nodes)>>) THEN <<0, 0>>
        ELSE <<2 * Len(nodes) - Cardinality(categories) - Cardinality(scopes),
               2 * Len(nodes)>>

findOrphanedNodes(nodes, edges) ==
    IF Len(nodes) <= 1 THEN <<>>
    ELSE SelectSeq(nodes, LAMBDA n :
            \A k \in 1..Len(edges) : edges[k][1] # n.id /\ edges[k][2] # n.id)

calculateMetrics(nodes, edges) ==
    LET depths == Map(nodes, DepthOrZero)
        fanouts == Map(SelectSeq(nodes, LAMBDA n : Len(n.childIds) > 0),
                       LAMBDA n : Len(n.childIds))
    IN  [maxDepth |-> MaxOf(depths \o <<0>>),
         avgDepth |-> IF Len(depths) > 0 THEN <<SumSeq(depths), Len(depths)>>
                      ELSE <<0, 1>>,
         totalNodes |-> Len(nodes),
         leafNodes |-> Len(SelectSeq(nodes, LAMBDA n : Len(n.childIds) = 0)),
         rootNodes |-> Len(SelectSeq(nodes, LAMBDA n : n.parentId = 0)),
         balanceFactor |-> calculateBalanceFactor(nodes),
         fanout |-> IF Len(fanouts) > 0
                    THEN <<MinOf(fanouts), MaxOf(fanouts),
                           <<SumSeq(fanouts), Len(fanouts)>> >>
                    ELSE <<0, 0, <<0, 1>> >>,
         budgetUtilization |-> calculateBudgetUtilization(nodes),
         couplingScore |-> calculateCoupling(nodes, edges),
         cohesionScore |-> calculateCohesion(nodes),
         orphanedNodes |-> Len(findOrphanedNodes(nodes, edges)),
         templateUsage |-> <<Len(SelectSeq(nodes, LAMBDA n : n.isTemplate)),
                             Len(nodes)>>]

Issue(type, severity, nodeIds) ==
    [nodeIds |-> nodeIds, type |-> type, severity |-> severity]

IdsOfNodes(nodes) == Map(nodes, LAMBDA n : n.id)

\* the five checks of detectIssues, in order
detectIssues(nodes, edges, metrics) ==
    LET overallocated == SelectSeq(nodes, LAMBDA n :
            /\ n.estimatedTokens \notin {NoVal, 0}
            /\ n.tokenBudget \notin {NoVal, 0}
            /\ n.estimatedTokens > n.tokenBudget)
        underspecified == SelectSeq(nodes, LAMBDA n :
            /\ (IF n.specificity = NoVal THEN 0 ELSE n.specificity) < 3
            /\ n.altitude # "meta")
    IN  (IF metrics.maxDepth > 5
         THEN << Issue("depth_exceeded",
                       IF metrics.maxDepth > 7 THEN "high" ELSE "medium",
                       IdsOfNodes(SelectSeq(nodes, LAMBDA n : DepthOrZero(n) > 5))) >>
         ELSE <<>>)
        \o (IF metrics.balanceFactor[1] * 2 < metrics.balanceFactor[2]
            THEN << Issue("imbalanced", "medium", <<>>) >> ELSE <<>>)
        \o (IF metrics.orphanedNodes > 0
            THEN << Issue("orphaned", "low",
                          IdsOfNodes(findOrphanedNodes(nodes, edges))) >>
            ELSE <<>>)
        \o (IF Len(overallocated) > 0
            THEN << Issue("over_allocated", "high", IdsOfNodes(overallocated)) >>
            ELSE <<>>)
        \o (IF Len(underspecified) * 10 > Len(nodes) * 3
            THEN << Issue("under_specified", "medium",
                          IdsOfNodes(SubSeq(underspecified, 1,
                              IF Len(underspecified) < 10 THEN Len(underspecified)
                              ELSE 10))) >>
            ELSE <<>>)

\* the ids in the order scoreMap first saw them: issue by issue, then the nodes
RECURSIVE Distinct(_)
Distinct(ids) ==
    IF ids = <<>> THEN <<>>
    ELSE LET front == Distinct(SubSeq(ids, 1, Len(ids) - 1))
         IN  IF \E k \in 1..Len(front) : front[k] = ids[Len(ids)]
             THEN front ELSE Append(front, ids[Len(ids)])

severityScore(severity) ==
    IF severity = "high" THEN 30 ELSE IF severity = "medium" THEN 20 ELSE 10

\* the score scoreMap holds for nodeId when both loops are through
HotspotScore(nodeId, nodes, issues) ==
    SumSeq(Flatten(Map(issues, LAMBDA issue :
        Map(SelectSeq(issue.nodeIds, LAMBDA x : x = nodeId),
            LAMBDA x : severityScore(issue.severity)))))
    + SumSeq(Map(SelectSeq(nodes, LAMBDA n : n.id = nodeId), LAMBDA node :
        (IF DepthOrZero(node) > 4 THEN 15 ELSE 0)
        + (IF Len(node.childIds) > 8 THEN 10 ELSE 0)
        + (IF node.estimatedTokens # NoVal /\ node.estimatedTokens > 5000
           THEN 20 ELSE 0)))

\* Array.sort((a, b) => b.score - a.score), stable
InsertByScore(sorted, h) ==
    LET k == FindIndex(sorted, LAMBDA x : x.score < h.score)
    IN  IF k = 0 THEN Append(sorted, h)
        ELSE SubSeq(sorted, 1, k - 1) \o <<h>> \o SubSeq(sorted, k, Len(sorted))

RECURSIVE SortByScore(_)
SortByScore(hs) ==
    IF hs = <<>> THEN <<>>
    ELSE InsertByScore(SortByScore(SubSeq(hs, 1, Len(hs) - 1)), hs[Len(hs)])

\* a slip: a score of exactly 20 is reported too
findHotspots_from20(nodes, issues) ==
    LET seen == Distinct(Flatten(Map(issues, LAMBDA issue : issue.nodeIds))
                         \o IdsOfNodes(nodes))
        scored == Map(seen, LAMBDA nodeId :
                    [nodeId |-> nodeId, score |-> HotspotScore(nodeId, nodes, issues)])
    IN  SortByScore(Map(SelectSeq(scored, LAMBDA h : h.score >= 20), LAMBDA h :
            [h EXCEPT !.score = IF h.score < 100 THEN h.score ELSE 100]))

\* a hotspot is its nodeId and score; reasons and suggestedActions are left out
findHotspots(nodes, issues) ==
    LET seen == Distinct(Flatten(Map(issues, LAMBDA issue : issue.nodeIds))
                         \o IdsOfNodes(nodes))
        scored == Map(seen, LAMBDA nodeId :
                    [nodeId |-> nodeId, score |-> HotspotScore(nodeId, nodes, issues)])
    IN  SortByScore(Map(SelectSeq(scored, LAMBDA h : h.score > 20), LAMBDA h :
            [h EXCEPT !.score = IF h.score < 100 THEN h.score ELSE 100]))

\* threw: the call ended with an exception instead of a result
analyze(nodes, edges) ==
    IF Throws(nodes) THEN [threw |-> TRUE]
    ELSE LET metrics == calculateMetrics(nodes, edges)
             issues == detectIssues(nodes, edges, metrics)
         IN  [metrics |-> metrics, issues |-> issues, threw |-> FALSE,
              hotspots |-> findHotspots(nodes, issues)]

Analyze(nodes, edges) ==
    /\ ret' = [op |-> "analyze", arg |-> <<nodes, edges>>,
               value |-> analyze(nodes, edges)]
    /\ UNCHANGED <<window, calls, allocNodes, cdNodes, cdConflicts, cdDone, store>>

(***************************************************************************)
(* SpecHA: HierarchyAnalyzer.analyze over well-formed and malformed lists  *)
(***************************************************************************)
MaxHaNodes == 2        \* longest node list handed to analyze

\* <<parentId, childIds, depth, isTemplate, category, scope, altitude,
\*   specificity, estimatedTokens, tokenBudget>>
HaShapes ==
    { <<0, <<>>, 0, FALSE, "instruction", "none", "none", 5, NoVal, NoVal>>,
      <<0, <<2>>, 0, TRUE, "instruction", "global", "meta", 8, 100, 200>>,
      <<1, <<>>, 1, FALSE, "constraint", "task", "tactical", 2, 300, 200>>,
      <<1, <<2>>, 1, FALSE, "constraint", "task", "tactical", 5, NoVal, NoVal>>,
      <<1, <<1>>, NoVal, FALSE, "example", "local", "operational", NoVal, NoVal, NoVal>>,
      <<0, <<11, 12, 13, 14, 15, 16, 17, 18, 19>>, 8, FALSE, "example", "session",
        "implementation", NoVal, 6000, NoVal>>,
      <<9, <<>>, 6, TRUE, "instruction", "task", "none", 2, NoVal, 0>> }

HaNodes(shapes) ==
    [i \in 1..Len(shapes) |->
        [estimatedTokens |-> shapes[i][9], altitude |-> shapes[i][7], id |-> i,
         scope |-> shapes[i][6], parentId |-> shapes[i][1], depth |-> shapes[i][3],
         childIds |-> shapes[i][2], tokenBudget |-> shapes[i][10],
         category |-> shapes[i][5], isTemplate |-> shapes[i][4],
         specificity |-> shapes[i][8]]]

HaEdgeLists == { <<>>, << <<1, 2>> >>, << <<1, 2>>, <<2, 1>> >> }

NextHA ==
    \E n \in 0..MaxHaNodes : \E shapes \in [1..n -> HaShapes] :
        \E edges \in HaEdgeLists : Analyze(HaNodes(shapes), edges)

SpecHA == Init /\ [][NextHA]_vars

(***************************************************************************)
(* useOntologyStore: the node and edge collection.  A node carries id,     *)
(* parentId (0 when undefined), depth (NoVal when undefined) and childIds; *)
(* an edge id, source and target; a conflict id and nodeIds.               *)
(***************************************************************************)
MaxStoreNodes == 3     \* nodes in the store at a time
MaxStoreEdges == 1     \* edges in the store at a time
MaxStoreDepth == 2     \* deepest parent addChild is tried on
MaxChildIds == 2       \* longest childIds addChild is tried on

getNodeById(s, id) ==
    LET i == FindIndex(s.nodes, LAMBDA node : node.id = id)
    IN  IF i = 0 THEN <<>> ELSE <<s.nodes[i]>>

addNode(s, node) == [s EXCEPT !.nodes = Append(@, node)]

deleteNode(s, id) ==
    [nodes |-> SelectSeq(s.nodes, LAMBDA node : node.id # id),
     edges |-> SelectSeq(s.edges, LAMBDA edge : edge.source # id /\ edge.target # id),
     conflicts |-> SelectSeq(s.conflicts,
                             LAMBDA conflict : ~Includes(conflict.nodeIds, id))]

addEdge(s, edge) == [s EXCEPT !.edges = Append(@, edge)]

setConflicts(s, conflicts) == [s EXCEPT !.conflicts = conflicts]

\* parent.depth || 0
DepthOr0(node) == IF node.depth = NoVal THEN 0 ELSE node.depth

addChild(s, parentId, childNode) ==
    LET parent == getNodeById(s, parentId)
    IN  IF parent = <<>> THEN s
        ELSE LET updatedChild ==
                     [childNode EXCEPT !.parentId = parentId,
                                       !.depth = DepthOr0(parent[1]) + 1]
             IN  [s EXCEPT !.nodes =
                     Append(Map(@, LAMBDA node :
                                IF node.id = parentId
                                THEN [node EXCEPT !.childIds = Append(@, childNode.id)]
                                ELSE node),
                            updatedChild)]

StoreIds == 1..MaxStoreNodes

IdsInStore(s) == {s.nodes[k].id : k \in 1..Len(s.nodes)}

\* the nodes handed to addNode and addChild: not yet linked to anything
NewNodes(s) ==
    { [id |-> i, parentId |-> 0, depth |-> d, childIds |-> <<>>] :
        i \in StoreIds \ IdsInStore(s), d \in {NoVal, 0} }

NewEdges(s) ==
    { [id |-> Len(s.edges) + 1, target |-> b, source |-> a] :
        a \in StoreIds, b \in StoreIds }

StoreConflicts ==
    { <<>>, << [id |-> 1, nodeIds |-> <<1, 2>>] >> }

StoreCall(op, arg, s) ==
    /\ store' = s
    /\ ret' = [op |-> op, arg |-> arg, value |-> <<>>]
    /\ UNCHANGED <<window, calls, allocNodes, cdNodes, cdConflicts, cdDone>>

AddNode(node) == StoreCall("addNode", node.id, addNode(store, node))

DeleteNode(id) == StoreCall("deleteNode", id, deleteNode(store, id))

AddEdge(edge) == StoreCall("addEdge", edge.id, addEdge(store, edge))

SetConflicts(conflicts) ==
    StoreCall("setConflicts", <<>>, setConflicts(store, conflicts))

AddChild(parentId, childNode) ==
    StoreCall("addChild", <<parentId, childNode.id>>,
              addChild(store, parentId, childNode))

NextStore ==
    \/ /\ Len(store.nodes) < MaxStoreNodes
       /\ \E node \in NewNodes(store) : AddNode(node)
    \/ /\ Len(store.nodes) < MaxStoreNodes
       /\ \E parentId \in StoreIds :
              /\ \A k \in 1..Len(store.nodes) :
                     store.nodes[k].id = parentId =>
                         /\ DepthOr0(store.nodes[k]) < MaxStoreDepth
                         /\ Len(store.nodes[k].childIds) < MaxChildIds
              /\ \E childNode \in NewNodes(store) : AddChild(parentId, childNode)
    \/ \E id \in StoreIds : DeleteNode(id)
    \/ /\ Len(store.edges) < MaxStoreEdges
       /\ \E edge \in NewEdges(store) : AddEdge(edge)
    \/ \E conflicts \in StoreConflicts : SetConflicts(conflicts)

SpecStore == Init /\ [][NextStore]_vars

(***************************************************************************)
(* useOntologyStore: hierarchy navigation and manipulation.  null and      *)
(* undefined ids are 0.  A recursion or loop that never ends is cut after  *)
(* MaxStoreNodes + 1 rounds: with at most MaxStoreNodes nodes a longer     *)
(* chain has come back to a node it already passed.                        *)
(***************************************************************************)
\* state.nodes.map(node => node.id === id ? {...node, depth} : node)
updateNode(s, id, depth) ==
    [s EXCEPT !.nodes = Map(@, LAMBDA node :
        IF node.id = id THEN [node EXCEPT !.depth = depth] ELSE node)]

\* the ids of getChildren(nodeId): the childIds that name a node of the store
getChildren(s, nodeId) ==
    LET node == getNodeById(s, nodeId)
    IN  IF node = <<>> THEN <<>>
        ELSE SelectSeq(node[1].childIds, LAMBDA childId : getNodeById(s, childId) # <<>>)

\* the ids of getAncestors(nodeId), nearest first; terminates is FALSE when
\* the while loop never ends
RECURSIVE AncestorsLoop(_, _, _, _)
AncestorsLoop(s, currentId, ancestors, rounds) ==
    LET currentNode == getNodeById(s, currentId)
    IN  IF currentNode = <<>> \/ currentNode[1].parentId = 0
        THEN [ancestors |-> ancestors, terminates |-> TRUE]
        ELSE IF getNodeById(s, currentNode[1].parentId) = <<>>
             THEN [ancestors |-> ancestors, terminates |-> TRUE]
             ELSE IF rounds = 0
                  THEN [ancestors |-> ancestors, terminates |-> FALSE]
                  ELSE AncestorsLoop(s, currentNode[1].parentId,
                                     Append(ancestors, currentNode[1].parentId),
                                     rounds - 1)

getAncestors(s, nodeId) == AncestorsLoop(s, nodeId, <<>>, MaxStoreNodes + 1)

removeChild(s, parentId, childId) ==
    [s EXCEPT !.nodes = Map(@, LAMBDA node :
        IF node.id = parentId
        THEN [node EXCEPT !.childIds = SelectSeq(@, LAMBDA id : id # childId)]
        ELSE IF node.id = childId
             THEN [node EXCEPT !.parentId = 0]
             ELSE node)]

\* updateDescendantDepths(id, baseDepth) and its forEach over the children;
\* threw: the recursion overflowed the call stack (RangeError), the depths
\* written until then stay in the store
RECURSIVE updateDescendantDepths(_, _, _, _)
RECURSIVE UpdateEachChild(_, _, _, _)
UpdateEachChild(s, children, baseDepth, frames) ==
    IF children = <<>> THEN [s |-> s, threw |-> FALSE]
    ELSE LET r == updateDescendantDepths(
                      updateNode(s, Head(children), baseDepth + 1),
                      Head(children), baseDepth + 1, frames - 1)
         IN  IF r.threw THEN r
             ELSE UpdateEachChild(r.s, Tail(children), baseDepth, frames)

updateDescendantDepths(s, id, baseDepth, frames) ==
    IF frames = 0 THEN [s |-> s, threw |-> TRUE]
    ELSE UpdateEachChild(s, getChildren(s, id), baseDepth, frames)

moveNode(s, nodeId, newParentId) ==
    LET node == getNodeById(s, nodeId)
    IN  IF node = <<>> THEN [s |-> s, threw |-> FALSE]
        ELSE LET s1 == IF node[1].parentId # 0
                       THEN removeChild(s, node[1].parentId, nodeId) ELSE s
                 newParent == getNodeById(s1, newParentId)
             IN  IF newParentId = 0
                 THEN [s |-> [s1 EXCEPT !.nodes = Map(@, LAMBDA n :
                                  IF n.id = nodeId
                                  THEN [n EXCEPT !.parentId = 0, !.depth = 0]
                                  ELSE n)],
                       threw |-> FALSE]
                 ELSE IF newParent = <<>> THEN [s |-> s1, threw |-> FALSE]
                 ELSE LET newDepth == DepthOr0(newParent[1]) + 1
                          s2 == [s1 EXCEPT !.nodes = Map(@, LAMBDA n :
                                    IF n.id = nodeId
                                    THEN [n EXCEPT !.parentId = newParentId,
                                                   !.depth = newDepth]
                                    ELSE IF n.id = newParentId
                                         THEN [n EXCEPT !.childIds = Append(@, nodeId)]
                                         ELSE n)]
                      IN  updateDescendantDepths(s2, nodeId, newDepth,
                                                 MaxStoreNodes + 1)

RemoveChild(parentId, childId) ==
    StoreCall("removeChild", <<parentId, childId>>,
              removeChild(store, parentId, childId))

\* value: whether the call ended with a RangeError
MoveNode(nodeId, newParentId) ==
    /\ store' = moveNode(store, nodeId, newParentId).s
    /\ ret' = [op |-> "moveNode", arg |-> <<nodeId, newParentId>>,
               value |-> moveNode(store, nodeId, newParentId).threw]
    /\ UNCHANGED <<window, calls, allocNodes, cdNodes, cdConflicts, cdDone>>

\* the nodes handed to addNode and addChild: roots without children
TreeNewNodes(s) ==
    { [id |-> i, parentId |-> 0, depth |-> 0, childIds |-> <<>>] :
        i \in StoreIds \ IdsInStore(s) }

MaxTreeDepth == 2      \* deepest node of a store the calls are tried on
MaxTreeChildIds == 1   \* longest childIds of a store the calls are tried on

WithinTreeBounds(s) ==
    \A k \in 1..Len(s.nodes) :
        /\ DepthOr0(s.nodes[k]) <= MaxTreeDepth
        /\ Len(s.nodes[k].childIds) <= MaxTreeChildIds

NextTree ==
    \/ /\ Len(store.nodes) < MaxStoreNodes
       /\ \E node \in TreeNewNodes(store) : AddNode(node)
    \/ /\ Len(store.nodes) < MaxStoreNodes
       /\ WithinTreeBounds(store)
       /\ \E parentId \in StoreIds : \E childNode \in TreeNewNodes(store) :
              AddChild(parentId, childNode)
    \/ /\ WithinTreeBounds(store)
       /\ \E parentId \in StoreIds : \E childId \in StoreIds :
              RemoveChild(parentId, childId)
    \/ /\ WithinTreeBounds(store)
       /\ \E nodeId \in StoreIds : \E newParentId \in {0} \cup StoreIds \cup {MaxStoreNodes + 1} :
              MoveNode(nodeId, newParentId)

SpecTree == Init /\ [][NextTree]_vars

(***************************************************************************)
(* Claims about ContextManager, checked under Spec                         *)
(***************************************************************************)
\* the ids compaction must not touch: preserveNodeIds and the nodes whose
\* compressionHint is 'preserve'
PreservedIds ==
    window.preserveNodeIds
        \cup {allocNodes[i].id : i \in {j \in 1..Len(allocNodes) :
                                        allocNodes[j].compressionHint = "preserve"}}

CompactedIds == {ret.value.nodesCompacted[i].nodeId :
                    i \in 1..Len(ret.value.nodesCompacted)}

\* C2: a compact call never compacts a node whose compressionHint is
\* 'preserve' or whose id is in preserveNodeIds.
C2_PreserveNeverCompacted ==
    ret.op = "compact" => CompactedIds \cap PreservedIds = {}

\* C6: the window's used is the sum of its allocations' used values and
\* remaining is totalBudget - used, after every call.
C6_UsageDerived ==
    /\ window.used = SumSeq(Map(window.allocations, LAMBDA a : a.used))
    /\ window.remaining = window.totalBudget - window.used

C6_Witness ==
    /\ ret.op = "compact"
    /\ ret.value.tokensSaved > 0
    /\ window.used > 0

IsPrefix(s, t) == Len(s) <= Len(t) /\ SubSeq(t, 1, Len(s)) = s

\* C7 as stated: the history holds one event per compact call made so far,
\* every compact call appends exactly one event, and no operation removes or
\* changes an event already logged.
C7_HistoryAppendOnly ==
    /\ Len(window.compactionHistory) = calls.compact
    /\ [][ /\ Len(window.compactionHistory') = calls'.compact
           /\ IsPrefix(window.compactionHistory, window.compactionHistory')
           /\ calls'.compact # calls.compact =>
                 Len(window.compactionHistory') = Len(window.compactionHistory) + 1
         ]_vars

\* C7, with import set apart: every compact call appends exactly one event,
\* also when it compacts nothing; allocateBudget, setPreserveNodes,
\* shouldCompact and getOptimizationRecommendations leave the history as it
\* is; only import, which replaces the window by the restored one, removes
\* or changes events already logged.
C7_AppendOnlyExceptImport ==
    [][ \/ /\ IsPrefix(window.compactionHistory, window.compactionHistory')
           /\ IF calls'.compact # calls.compact
              THEN Len(window.compactionHistory') = Len(window.compactionHistory) + 1
              ELSE window.compactionHistory' = window.compactionHistory
        \/ /\ ret'.op = "import"
           /\ window' \in RestoredWindows
           /\ calls' = calls
      ]_vars

C7_Witness ==
    /\ ret.op = "compact"
    /\ ret.value.nodesCompacted = <<>>
    /\ ~ret.value.success
    /\ Len(window.compactionHistory) = 2
    /\ window.compactionHistory[1].nodesCompacted # <<>>

RECURSIVE SavedBy(_)
SavedBy(compacted) ==
    IF compacted = <<>> THEN 0
    ELSE (Head(compacted).originalTokens - Head(compacted).compressedTokens)
            + SavedBy(Tail(compacted))

\* C8: compact(target) returns success = TRUE exactly when the returned
\* tokensSaved is at least target, tokensSaved being the sum of
\* originalTokens - compressedTokens over the returned compacted nodes.
C8_SuccessIffTargetMet ==
    ret.op = "compact" =>
        /\ ret.value.tokensSaved = SavedBy(ret.value.nodesCompacted)
        /\ ret.value.success <=> (ret.value.tokensSaved >= ret.arg)

C8_Witness ==
    /\ ret.op = "compact"
    /\ ret.value.nodesCompacted # <<>>
    /\ ~ret.value.success

Advisory == {"allocateBudget", "shouldCompact", "getOptimizationRecommendations",
             "setPreserveNodes"}

Allocated(allocs) == SumSeq(Map(allocs, LAMBDA a : a.allocated))

NodeIdsOf(allocs) == {allocs[i].nodeId : i \in 1..Len(allocs)}

\* C3: the allocated values of the list allocateBudget returns sum to at
\* most totalBudget.
C3_MergedWithinBudget ==
    ret.op = "allocateBudget" => Allocated(ret.value) <= window.totalBudget

\* two nodes or more, whose merged allocations exceed what any single pass
\* may spend (40% of the budget)
C3_Witness ==
    /\ ret.op = "allocateBudget"
    /\ Len(ret.value) >= 2
    /\ Allocated(ret.value) * 10 > 4 * window.totalBudget

\* C4: each pass alone stays within its reserve: scope 30%, altitude 40%,
\* priority 30% of totalBudget.
C4_PassWithinReserve ==
    ret.op = "allocateBudget" =>
        /\ Allocated(globalAllocs(allocNodes, window.totalBudget)) * 10
              <= 3 * window.totalBudget
        /\ Allocated(altitudeAllocs(allocNodes, window.totalBudget)) * 10
              <= 4 * window.totalBudget
        /\ Allocated(priorityAllocs(allocNodes, window.totalBudget)) * 10
              <= 3 * window.totalBudget

\* every pass hands out something, and flooring leaves part of the scope
\* reserve unspent
C4_Witness ==
    /\ ret.op = "allocateBudget"
    /\ Allocated(globalAllocs(allocNodes, window.totalBudget)) > 0
    /\ Allocated(globalAllocs(allocNodes, window.totalBudget)) * 10
          < 3 * window.totalBudget
    /\ Allocated(altitudeAllocs(allocNodes, window.totalBudget)) > 0
    /\ Allocated(priorityAllocs(allocNodes, window.totalBudget)) > 0

PassRecords(nodes, totalBudget) ==
    globalAllocs(nodes, totalBudget) \o altitudeAllocs(nodes, totalBudget)
        \o priorityAllocs(nodes, totalBudget)

\* C5: allocateBudget returns exactly one allocation per input node id, and
\* its allocated value is the largest the three passes gave that node.
C5_OnePerNodeMax ==
    ret.op = "allocateBudget" =>
        LET recs == PassRecords(allocNodes, window.totalBudget)
        IN  /\ NodeIdsOf(ret.value) = {allocNodes[i].id : i \in 1..Len(allocNodes)}
            /\ Len(ret.value) = Cardinality(NodeIdsOf(ret.value))
            /\ \A i \in 1..Len(ret.value) :
                  /\ \E k \in 1..Len(recs) :
                        /\ recs[k].nodeId = ret.value[i].nodeId
                        /\ recs[k].allocated = ret.value[i].allocated
                  /\ \A k \in 1..Len(recs) :
                        recs[k].nodeId = ret.value[i].nodeId
                            => recs[k].allocated <= ret.value[i].allocated

\* a node whose scope share is beaten by its priority share, beside a node
\* whose scope share wins
C5_Witness ==
    /\ ret.op = "allocateBudget"
    /\ Len(ret.value) >= 2
    /\ LET g == globalAllocs(allocNodes, window.totalBudget)
       IN  /\ \E i \in 1..Len(ret.value) : \E k \in 1..Len(g) :
                 /\ g[k].nodeId = ret.value[i].nodeId
                 /\ g[k].allocated < ret.value[i].allocated
           /\ \E i \in 1..Len(ret.value) : \E k \in 1..Len(g) :
                 /\ g[k].nodeId = ret.value[i].nodeId
                 /\ g[k].allocated = ret.value[i].allocated

AllocatedOf(allocs, nodeId) ==
    {allocs[i].allocated : i \in {k \in 1..Len(allocs) : allocs[k].nodeId = nodeId}}

SameAllocationPerNode(xs, ys) ==
    /\ NodeIdsOf(xs) = NodeIdsOf(ys)
    /\ Len(xs) = Len(ys)
    /\ \A id \in NodeIdsOf(xs) : AllocatedOf(xs, id) = AllocatedOf(ys, id)

\* C21: merging is idempotent: merging the merged list again, alone or
\* together with the three pass outputs (before or after them), or merging
\* the three pass outputs twice over, gives the same allocation for every
\* node as merging once; merged alone it gives back the very same list.
C21_MergeIdempotent ==
    ret.op = "allocateBudget" =>
        LET g == globalAllocs(allocNodes, window.totalBudget)
            a == altitudeAllocs(allocNodes, window.totalBudget)
            p == priorityAllocs(allocNodes, window.totalBudget)
            merged == mergeAllocations(<<g, a, p>>)
        IN  /\ ret.value = merged
            /\ mergeAllocations(<<merged>>) = merged
            /\ SameAllocationPerNode(mergeAllocations(<<merged, g, a, p>>), merged)
            /\ SameAllocationPerNode(mergeAllocations(<<g, a, p, merged>>), merged)
            /\ SameAllocationPerNode(mergeAllocations(<<g, a, p, g, a, p>>), merged)

\* two nodes, one of them with records of different size in all three passes
C21_Witness ==
    /\ ret.op = "allocateBudget"
    /\ Len(ret.value) = 2
    /\ LET g == globalAllocs(allocNodes, window.totalBudget)
           a == altitudeAllocs(allocNodes, window.totalBudget)
           p == priorityAllocs(allocNodes, window.totalBudget)
       IN  \E i \in 1..Len(g) : \E j \in 1..Len(a) : \E k \in 1..Len(p) :
               /\ g[i].nodeId = a[j].nodeId /\ a[j].nodeId = p[k].nodeId
               /\ g[i].allocated # a[j].allocated
               /\ a[j].allocated # p[k].allocated
               /\ g[i].allocated # p[k].allocated

(***************************************************************************)
(* Claim about shouldCompact, checked under SpecSC                         *)
(***************************************************************************)
\* C9: shouldCompact returns true if and only if compactionEnabled is true
\* and used / totalBudget is strictly greater than compactionThreshold;
\* utilization exactly at the threshold gives false.
C9_StrictlyAboveThreshold ==
    ret.op = "shouldCompact" =>
        (ret.value = TRUE <=>
            /\ window.compactionEnabled
            /\ window.used * 100 > window.compactionThreshold * window.totalBudget)

\* compaction enabled, utilization exactly at the threshold, answer false
C9_Witness ==
    /\ ret.op = "shouldCompact"
    /\ window.compactionEnabled
    /\ window.used > 0
    /\ window.used * 100 = window.compactionThreshold * window.totalBudget
    /\ ret.value = FALSE

(***************************************************************************)
(* Claim about ConflictDetector, checked under SpecCD                      *)
(***************************************************************************)
\* the parentId of the node with this id, 0 when there is none
ParentOf(nodes, id) ==
    IF FindNode(nodes, id) = 0 THEN 0 ELSE nodes[FindNode(nodes, id)].parentId

RECURSIVE Ancestor(_, _, _)
Ancestor(nodes, id, k) ==
    IF k = 0 THEN id ELSE ParentOf(nodes, Ancestor(nodes, id, k - 1))

OnCycle(nodes, id) == \E k \in 1..Len(nodes) : Ancestor(nodes, id, k) = id

CycleOf(nodes, id) == {Ancestor(nodes, id, k) : k \in 0..Len(nodes)}

IdsOf(seq) == {seq[k] : k \in 1..Len(seq)}

\* C1: for every parentId cycle of length N >= 2 in the node list,
\* detectHierarchyConflicts reports exactly one circular-reference conflict
\* whose nodeIds are exactly the N nodes of the cycle, whichever node of the
\* cycle comes first in the list.
C1_OneConflictPerCycle ==
    cdDone =>
        \A i \in 1..Len(cdNodes) :
            (OnCycle(cdNodes, i) /\ Cardinality(CycleOf(cdNodes, i)) >= 2) =>
                Cardinality({k \in 1..Len(cdConflicts) :
                    /\ cdConflicts[k].type = "circular_dependency"
                    /\ IdsOf(cdConflicts[k].nodeIds) = CycleOf(cdNodes, i)
                    /\ Len(cdConflicts[k].nodeIds) = Cardinality(CycleOf(cdNodes, i))}) = 1

(***************************************************************************)
(* Claim about detectCircularDependencies, checked under SpecDep           *)
(***************************************************************************)
\* there is a depends_on or precedes edge from a to b in the analysed edges
DependsOn(a, b) ==
    \E k \in 1..Len(ret.arg[2]) :
        /\ IsDependency(ret.arg[2][k])
        /\ ret.arg[2][k].source = a
        /\ ret.arg[2][k].target = b

\* C27: every conflict detectCircularDependencies reports names nodes that
\* form a directed cycle of depends_on / precedes edges: each named node has
\* such an edge to the next one and the last to the first.  A node that
\* only has an edge into a cycle reported before is never reported as a
\* cycle, whatever the order of the node list.
C27_ReportedCyclesAreCycles ==
    ret.op = "detectCircularDependencies" =>
        \A c \in 1..Len(ret.value) :
            LET cycle == ret.value[c].nodeIds
            IN  /\ cycle # <<>>
                /\ \A k \in 1..(Len(cycle) - 1) : DependsOn(cycle[k], cycle[k + 1])
                /\ DependsOn(cycle[Len(cycle)], cycle[1])

(***************************************************************************)
(* Claims about the parent/child detectors, checked under SpecHC           *)
(***************************************************************************)
\* ids are list positions: the parent of node i is in the list
HasParentInList(i) == cdNodes[i].parentId \in 1..Len(cdNodes)

ParentNode(i) == cdNodes[cdNodes[i].parentId]

\* the returned conflicts a detector raised for child i
ConflictsFor(prefix, i) ==
    {k \in 1..Len(cdConflicts) : cdConflicts[k].id = <<prefix, i>>}

\* exactly one conflict of this kind for child i, naming <<child, parent>>
OneConflict(prefix, i, severity) ==
    /\ Cardinality(ConflictsFor(prefix, i)) = 1
    /\ \A k \in ConflictsFor(prefix, i) :
          /\ cdConflicts[k].severity = severity
          /\ cdConflicts[k].nodeIds = <<i, cdNodes[i].parentId>>

\* META = 1 (most abstract) ... IMPLEMENTATION = 5 (most concrete)
AltitudeLevel(altitude) ==
    CASE altitude = "meta" -> 1
      [] altitude = "strategic" -> 2
      [] altitude = "tactical" -> 3
      [] altitude = "operational" -> 4
      [] altitude = "implementation" -> 5

\* C11: for a child whose parent is in the list, both with an altitude: a
\* child strictly more abstract than its parent yields exactly one
\* high-severity altitude conflict naming child and parent; a child at the
\* same or a more concrete altitude yields none.
C11_AltitudeConflictIffMoreAbstract ==
    cdDone =>
        \A i \in 1..Len(cdNodes) :
            (/\ HasParentInList(i)
             /\ cdNodes[i].altitude # "none"
             /\ ParentNode(i).altitude # "none") =>
                IF AltitudeLevel(cdNodes[i].altitude) < AltitudeLevel(ParentNode(i).altitude)
                THEN OneConflict("altitude-inconsistency", i, "high")
                ELSE ConflictsFor("altitude-inconsistency", i) = {}

\* a child more abstract than its parent beside a child as abstract as its
\* parent
C11_Witness ==
    /\ cdDone
    /\ \E i, j \in 1..Len(cdNodes) :
          /\ HasParentInList(i) /\ HasParentInList(j)
          /\ cdNodes[i].altitude = "strategic" /\ ParentNode(i).altitude = "tactical"
          /\ ConflictsFor("altitude-inconsistency", i) # {}
          /\ cdNodes[j].altitude = "tactical" /\ ParentNode(j).altitude = "tactical"
          /\ ConflictsFor("altitude-inconsistency", j) = {}

\* GLOBAL = 5 (broadest) > SESSION > TASK > LOCAL > CONDITIONAL = 1
ScopeBreadth(scope) ==
    CASE scope = "global" -> 5
      [] scope = "session" -> 4
      [] scope = "task" -> 3
      [] scope = "local" -> 2
      [] scope = "conditional" -> 1

\* C12: for a child whose parent is in the list, both with a scope: exactly
\* one medium-severity scope conflict if and only if the child's scope is
\* strictly broader than the parent's on the scale GLOBAL > SESSION > TASK >
\* LOCAL > CONDITIONAL; an equal or narrower scope yields none.
C12_ScopeConflictIffBroader ==
    cdDone =>
        \A i \in 1..Len(cdNodes) :
            (/\ HasParentInList(i)
             /\ cdNodes[i].scope # "none"
             /\ ParentNode(i).scope # "none") =>
                IF ScopeBreadth(cdNodes[i].scope) > ScopeBreadth(ParentNode(i).scope)
                THEN OneConflict("scope-conflict", i, "medium")
                ELSE ConflictsFor("scope-conflict", i) = {}

\* C13: for a node with a parentId and a contextPriority (0 included) whose
\* parent is in the list with a contextPriority: exactly one medium-severity
\* priority-mismatch conflict naming <<child, parent>> if the child's
\* priority is strictly greater than the parent's, none otherwise.
C13_PriorityMismatchIffGreater ==
    cdDone =>
        \A i \in 1..Len(cdNodes) :
            (/\ HasParentInList(i)
             /\ cdNodes[i].contextPriority # NoVal
             /\ ParentNode(i).contextPriority # NoVal) =>
                IF cdNodes[i].contextPriority > ParentNode(i).contextPriority
                THEN OneConflict("priority-mismatch", i, "medium")
                ELSE ConflictsFor("priority-mismatch", i) = {}

\* a child of priority 80 under a parent of priority 0, which itself hangs
\* under the child without a conflict
C13_Witness ==
    /\ cdDone
    /\ \E i, j \in 1..Len(cdNodes) :
          /\ HasParentInList(i) /\ HasParentInList(j)
          /\ cdNodes[i].contextPriority = 80 /\ ParentNode(i).contextPriority = 0
          /\ ConflictsFor("priority-mismatch", i) # {}
          /\ cdNodes[j].contextPriority = 0 /\ ParentNode(j).contextPriority = 80
          /\ ConflictsFor("priority-mismatch", j) = {}

\* C14: for a node with a parentId and a depth whose parent is in the list
\* with a depth (0 included): exactly one low-severity depth-inconsistency
\* conflict, stating the expected depth parent.depth + 1, if and only if
\* child.depth differs from parent.depth + 1.
C14_DepthConflictIffNotParentPlusOne ==
    cdDone =>
        \A i \in 1..Len(cdNodes) :
            (/\ HasParentInList(i)
             /\ cdNodes[i].depth # NoVal
             /\ ParentNode(i).depth # NoVal) =>
                IF cdNodes[i].depth # ParentNode(i).depth + 1
                THEN /\ OneConflict("depth-inconsistency", i, "low")
                     /\ \A k \in ConflictsFor("depth-inconsistency", i) :
                           cdConflicts[k].expectedDepth = ParentNode(i).depth + 1
                ELSE ConflictsFor("depth-inconsistency", i) = {}

\* a node of depth 0 under a parent of depth 1 (expected depth 2), which
\* itself hangs under the node of depth 0 without a conflict
C14_Witness ==
    /\ cdDone
    /\ \E i, j \in 1..Len(cdNodes) :
          /\ HasParentInList(i) /\ HasParentInList(j)
          /\ cdNodes[i].depth = 0 /\ ParentNode(i).depth = 1
          /\ \E k \in ConflictsFor("depth-inconsistency", i) :
                cdConflicts[k].expectedDepth = 2
          /\ cdNodes[j].depth = 1 /\ ParentNode(j).depth = 0
          /\ ConflictsFor("depth-inconsistency", j) = {}

\* the parentId of node i names no node of the list
DanglingParent(i) ==
    cdNodes[i].parentId # 0 /\ cdNodes[i].parentId \notin 1..Len(cdNodes)

\* C17: a node whose parentId names an id that is not in the list is treated
\* as having no parent: the call returns, and no returned conflict (priority,
\* altitude, scope, depth or cycle) was raised for that node.
C17_DanglingParentIsAbsent ==
    cdDone =>
        \A i \in 1..Len(cdNodes) :
            DanglingParent(i) =>
                \A k \in 1..Len(cdConflicts) : cdConflicts[k].id[2] # i

\* a node with all fields and a dangling parentId raises nothing, while its
\* own child is still examined and reported
C17_Witness ==
    /\ cdDone
    /\ Len(cdNodes) = 2
    /\ DanglingParent(2)
    /\ cdNodes[2].altitude = "meta" /\ cdNodes[2].contextPriority = 80
    /\ cdNodes[2].depth = 5
    /\ cdNodes[1].parentId = 2
    /\ \A k \in 1..Len(cdConflicts) : cdConflicts[k].id[2] # 2
    /\ ConflictsFor("depth-inconsistency", 1) # {}

\* C18: if no node has a parentId, an altitude or a scope, no conflict is
\* returned, whatever contextPriority and depth contain.
C18_FlatListNoConflicts ==
    cdDone =>
        ((\A i \in 1..Len(cdNodes) :
            /\ cdNodes[i].parentId = 0
            /\ cdNodes[i].altitude = "none"
            /\ cdNodes[i].scope = "none") => cdConflicts = <<>>)

\* two nodes without parentId, altitude and scope, with different depths
C18_Witness ==
    /\ cdDone
    /\ Len(cdNodes) = 2
    /\ \A i \in 1..2 :
          /\ cdNodes[i].parentId = 0
          /\ cdNodes[i].altitude = "none"
          /\ cdNodes[i].scope = "none"
    /\ cdNodes[1].depth = 5 /\ cdNodes[2].depth = 0
    /\ cdConflicts = <<>>

(***************************************************************************)
(* Claims about compact's error handling, checked under SpecTry            *)
(***************************************************************************)
AllocationOf(w, nodeId) ==
    LET i == FindIndex(w.allocations, LAMBDA x : x.nodeId = nodeId)
    IN  w.allocations[i]

TimesIn(s, x) == Cardinality({k \in 1..Len(s) : s[k] = x})

\* C19: when the compaction of one candidate fails inside compact, the
\* failure is one entry of the result's errors, the node's allocation stays
\* as it was, the node is not among nodesCompacted (of the result and of the
\* event), the candidates after it are still processed (a call that ends
\* short of its target has tried every candidate), and the call returns a
\* result and appends its one history event.
C19_FailureIsCollected ==
    [][(ret'.op = "compact" /\ calls'.compact = calls.compact + 1
            /\ ret'.value.errors # <<>>) =>
        LET result == ret'.value
            candidates == compactableNodes(window)
            compactedIds == {result.nodesCompacted[k].nodeId :
                                k \in 1..Len(result.nodesCompacted)}
            failedIds == {result.errors[k] : k \in 1..Len(result.errors)}
            event == window'.compactionHistory[Len(window'.compactionHistory)]
        IN  /\ \A f \in failedIds :
                    /\ TimesIn(result.errors, f) = 1
                    /\ \E k \in 1..Len(candidates) : candidates[k].nodeId = f
                    /\ AllocationOf(window', f) = AllocationOf(window, f)
                    /\ f \notin compactedIds
                    /\ TimesIn(event.nodesCompacted, f) = 0
            /\ ~result.success =>
                    \A k \in 1..Len(candidates) :
                        candidates[k].nodeId \in failedIds \cup compactedIds
            /\ result.success = (result.tokensSaved >= ret'.arg)
            /\ Len(window'.compactionHistory) = Len(window.compactionHistory) + 1
            /\ SubSeq(window'.compactionHistory, 1, Len(window.compactionHistory))
                    = window.compactionHistory
            /\ event.savedTokens = result.tokensSaved
            /\ Len(window'.allocations) = Len(window.allocations)]_vars

\* the first candidate failed, the second was compacted after it, and the
\* event of the call is in the history
C19_Witness ==
    /\ ret.op = "compact"
    /\ Len(ret.value.errors) = 1
    /\ Len(ret.value.nodesCompacted) = 1
    /\ ret.value.tokensSaved > 0
    /\ AllocationOf(window, ret.value.errors[1]).used > 0
    /\ AllocationOf(window, ret.value.errors[1]).compressionRatio = <<1, 1>>
    /\ Len(window.compactionHistory) = 1
    /\ window.compactionHistory[1].nodesCompacted
            = <<ret.value.nodesCompacted[1].nodeId>>
    /\ \E k \in 1..Len(window.allocations) :
            /\ window.allocations[k].nodeId = ret.value.errors[1]
            /\ \E j \in 1..Len(window.allocations) :
                    /\ window.allocations[j].nodeId = ret.value.nodesCompacted[1].nodeId
                    /\ window.allocations[k].priority < window.allocations[j].priority

(***************************************************************************)
(* Claims about compact on small allocations, checked under SpecLow        *)
(***************************************************************************)
UsedOf(w, nodeId) ==
    {w.allocations[k].used : k \in {i \in 1..Len(w.allocations) :
                                        w.allocations[i].nodeId = nodeId}}

LastEvent(w) == w.compactionHistory[Len(w.compactionHistory)]

CompactStep == ret'.op = "compact" /\ calls'.compact = calls.compact + 1

\* C22: the event a compact call appends tells the truth about the window:
\* beforeUsed is window.used before the call, afterUsed is window.used after
\* it, savedTokens = beforeUsed - afterUsed = the returned tokensSaved, and
\* nodesCompacted holds exactly the ids of the nodes whose used changed.
C22_EventRecordsTruth ==
    [][CompactStep =>
        LET event == LastEvent(window')
            listed == {event.nodesCompacted[k] : k \in 1..Len(event.nodesCompacted)}
            changed == {id \in NodeIdsOf(window.allocations) :
                            UsedOf(window', id) # UsedOf(window, id)}
        IN  /\ event.beforeUsed = window.used
            /\ event.afterUsed = window'.used
            /\ event.savedTokens = event.beforeUsed - event.afterUsed
            /\ event.savedTokens = ret'.value.tokensSaved
            /\ Len(event.nodesCompacted) = Cardinality(listed)
            /\ listed = changed]_vars

IndexIn(allocs, nodeId) == FindIndex(allocs, LAMBDA x : x.nodeId = nodeId)

\* the candidates of a compact call on window w, as a set of positions
CandidateAt(w) ==
    {i \in 1..Len(w.allocations) :
        /\ w.allocations[i].compressible
        /\ w.allocations[i].nodeId \notin w.preserveNodeIds}

\* position i comes before position j in the priority order (ties keep the
\* order of the allocation list)
Before(w, i, j) ==
    \/ w.allocations[i].priority < w.allocations[j].priority
    \/ w.allocations[i].priority = w.allocations[j].priority /\ i < j

\* C23: compact(target) takes the candidates (compressible, not in
\* preserveNodeIds) in ascending priority and stops as soon as the savings
\* reach the target: the compacted nodes are the shortest prefix of the
\* priority-sorted candidates whose savings reach the target, or all
\* candidates when they cannot; no candidate is compacted while one that
\* comes before it is left untouched.
C23_ShortestPriorityPrefix ==
    [][CompactStep =>
        LET compacted == ret'.value.nodesCompacted
            pos == [k \in 1..Len(compacted) |->
                        IndexIn(window.allocations, compacted[k].nodeId)]
            taken == {pos[k] : k \in 1..Len(compacted)}
        IN  /\ taken \subseteq CandidateAt(window)
            /\ Cardinality(taken) = Len(compacted)
            /\ \A k \in 1..(Len(compacted) - 1) : Before(window, pos[k], pos[k + 1])
            /\ \A i \in CandidateAt(window) \ taken : \A j \in taken :
                    Before(window, j, i)
            /\ \A k \in 1..Len(compacted) :
                    /\ compacted[k].originalTokens = window.allocations[pos[k]].used
                    /\ SavedBy(SubSeq(compacted, 1, k - 1)) < ret'.arg
            /\ SavedBy(compacted) < ret'.arg => taken = CandidateAt(window)]_vars

\* one node was compacted and the target met, while a candidate of higher
\* priority, earlier in the allocation list, was left as it was
C23_Witness ==
    /\ ret.op = "compact"
    /\ ret.value.success
    /\ Len(ret.value.nodesCompacted) = 1
    /\ \E i \in CandidateAt(window) :
            /\ i < IndexIn(window.allocations, ret.value.nodesCompacted[1].nodeId)
            /\ window.allocations[i].compressionRatio = <<1, 1>>
            /\ window.allocations[i].used > 0
            /\ window.allocations[i].priority >
                   window.allocations[IndexIn(window.allocations,
                       ret.value.nodesCompacted[1].nodeId)].priority

\* the one used value of node nodeId in window w
UsedIn(w, nodeId) == w.allocations[IndexIn(w.allocations, nodeId)].used

\* C24 as stated: each node compacted by compact contributes exactly 50% of
\* its current used value to tokensSaved, for every non-negative integer
\* used, odd values included.
C24_ExactlyHalf ==
    [][CompactStep =>
        LET compacted == ret'.value.nodesCompacted
        IN  /\ \A k \in 1..Len(compacted) :
                    2 * (UsedIn(window, compacted[k].nodeId)
                            - UsedIn(window', compacted[k].nodeId))
                        = UsedIn(window, compacted[k].nodeId)
            /\ 2 * ret'.value.tokensSaved
                    = SumSeq(Map(compacted, LAMBDA c : UsedIn(window, c.nodeId)))]_vars

\* C24, with the rounding: each node compacted by compact is left with
\* floor(used / 2) tokens and contributes used - floor(used / 2) to
\* tokensSaved: exactly 50% of used when used is even, half a token more
\* when it is odd.
C24_HalfRoundedDown ==
    [][CompactStep =>
        LET compacted == ret'.value.nodesCompacted
        IN  /\ \A k \in 1..Len(compacted) :
                    LET used == UsedIn(window, compacted[k].nodeId)
                    IN  /\ compacted[k].originalTokens = used
                        /\ UsedIn(window', compacted[k].nodeId) = used \div 2
                        /\ 2 * (used - UsedIn(window', compacted[k].nodeId))
                               = used + (used % 2)
            /\ ret'.value.tokensSaved
                    = SumSeq(Map(compacted, LAMBDA c :
                          UsedIn(window, c.nodeId) - (UsedIn(window, c.nodeId) \div 2)))]_vars

\* an allocation of 3 tokens was compacted to 1: 2 tokens saved
C24_Witness ==
    /\ ret.op = "compact"
    /\ \E k \in 1..Len(ret.value.nodesCompacted) :
            /\ ret.value.nodesCompacted[k].originalTokens = 3
            /\ UsedIn(window, ret.value.nodesCompacted[k].nodeId) = 1
    /\ ret.value.tokensSaved >= 2

\* C30: a compact call never raises an allocation's used value nor
\* window.used, leaves the allocations of nodes it did not compact as they
\* were, and leaves every compacted allocation with a finite
\* compressionRatio >= 1 (originalTokens / compressedTokens with
\* compressedTokens # 0), also when used was 0 or 1.
C30_CompactOnlyShrinks ==
    [][CompactStep =>
        LET compactedIds == {ret'.value.nodesCompacted[k].nodeId :
                                k \in 1..Len(ret'.value.nodesCompacted)}
        IN  /\ Len(window'.allocations) = Len(window.allocations)
            /\ window'.used <= window.used
            /\ \A i \in 1..Len(window.allocations) :
                    /\ window'.allocations[i].used <= window.allocations[i].used
                    /\ window.allocations[i].nodeId \notin compactedIds =>
                            window'.allocations[i] = window.allocations[i]
                    /\ window.allocations[i].nodeId \in compactedIds =>
                            /\ window'.allocations[i].compressionRatio[2] # 0
                            /\ window'.allocations[i].compressionRatio[1]
                                   >= window'.allocations[i].compressionRatio[2]]_vars

(***************************************************************************)
(* Claims about useOntologyStore, checked under SpecStore                  *)
(***************************************************************************)
\* C20: after deleteNode(id) no remaining node refers to the deleted node:
\* none has parentId = id, none lists id among its childIds, and no edge
\* has id as its source or target.
C20_DeleteLeavesNoReference ==
    ret.op = "deleteNode" =>
        /\ \A k \in 1..Len(store.nodes) :
                /\ store.nodes[k].id # ret.arg
                /\ store.nodes[k].parentId # ret.arg
                /\ ~Includes(store.nodes[k].childIds, ret.arg)
        /\ \A k \in 1..Len(store.edges) :
                store.edges[k].source # ret.arg /\ store.edges[k].target # ret.arg

(***************************************************************************)
(* Claims about the hierarchy kept by useOntologyStore, checked under      *)
(* SpecTree                                                                *)
(***************************************************************************)
\* every node has depth = parent.depth + 1 when its parent is in the store
\* and depth 0 when it has no parentId
GoodDepths(s) ==
    \A k \in 1..Len(s.nodes) :
        /\ s.nodes[k].parentId = 0 => s.nodes[k].depth = 0
        /\ \A j \in 1..Len(s.nodes) :
                s.nodes[k].parentId = s.nodes[j].id =>
                    s.nodes[k].depth = s.nodes[j].depth + 1

\* C25: from a store in which every node has depth = parent.depth + 1 (0 for
\* roots), a call of addChild or moveNode, moveNode(nodeId, null) on a node
\* with children included, leaves every node with depth = parent.depth + 1
\* when it has a parent and 0 when it is a root.
C25_DepthsKept ==
    [][(GoodDepths(store) /\ ret'.op \in {"addChild", "moveNode"})
            => GoodDepths(store')]_vars

\* following parentId from any node of the store comes to an end
Acyclic(s) ==
    \A k \in 1..Len(s.nodes) : getAncestors(s, s.nodes[k].id).terminates

\* C28: from a store whose parentId links are acyclic, no call of addChild
\* or moveNode creates a parent cycle, moveNode of a node under itself or
\* under one of its descendants included: getAncestors ends for every node
\* and moveNode's update of the descendants' depths ends.
C28_NoParentCycle ==
    [][(Acyclic(store) /\ ret'.op \in {"addChild", "moveNode"})
            => /\ Acyclic(store')
               /\ ret'.op = "moveNode" => ~ret'.value]_vars

\* c.parentId = p exactly when c is in p.childIds, each child listed once
Agree(s) ==
    \A j \in 1..Len(s.nodes) :
        /\ \A k \in 1..Len(s.nodes) :
                (s.nodes[k].parentId = s.nodes[j].id)
                    <=> Includes(s.nodes[j].childIds, s.nodes[k].id)
        /\ \A a \in 1..Len(s.nodes[j].childIds) :
                \A b \in 1..Len(s.nodes[j].childIds) :
                    s.nodes[j].childIds[a] = s.nodes[j].childIds[b] => a = b

\* C29: from a store where parentId and childIds agree, a call of addChild,
\* removeChild or moveNode, removeChild with a parentId that is not the
\* child's parent and moveNode to a new parent that does not exist
\* included, leaves parentId and childIds in agreement.
C29_ParentChildAgree ==
    [][(Agree(store) /\ ret'.op \in {"addChild", "removeChild", "moveNode"})
            => Agree(store')]_vars

(***************************************************************************)
(* Claims about HierarchyAnalyzer, checked under SpecHA                    *)
(***************************************************************************)
\* C15: analyze terminates and returns a result without throwing for every
\* node and edge list, also when childIds or parentId links form a cycle
\* that can be reached from a root.
C15_AnalyzeNeverThrows ==
    ret.op = "analyze" => ~ret.value.threw

\* C16: for the empty node list and the empty edge list analyze returns
\* metrics whose numeric fields are defined zero or default values, with
\* templateUsage = 0 and cohesionScore a defined number, and empty issues
\* and hotspots lists; nothing throws.
C16_EmptyInputGivesDefinedZeros ==
    (ret.op = "analyze" /\ ret.arg = << <<>>, <<>> >>) =>
        /\ ~ret.value.threw
        /\ ~IsNaN(ret.value.metrics.templateUsage)
        /\ ret.value.metrics.templateUsage[1] = 0
        /\ ~IsNaN(ret.value.metrics.cohesionScore)
        /\ ret.value.metrics.totalNodes = 0
        /\ ret.value.metrics.maxDepth = 0
        /\ ret.value.issues = <<>>
        /\ ret.value.hotspots = <<>>

\* the points of node i of the analysed list: 30 / 20 / 10 for every high /
\* medium / low issue naming it, 15 for depth > 4, 10 for more than 8
\* children, 20 for estimatedTokens > 5000
Points(i) ==
    LET nodes == ret.arg[1]
        issues == ret.value.issues
        named(k) == Cardinality({j \in 1..Len(issues[k].nodeIds) :
                                    issues[k].nodeIds[j] = nodes[i].id})
    IN  SumSeq([k \in 1..Len(issues) |->
                    named(k) * (CASE issues[k].severity = "high" -> 30
                                  [] issues[k].severity = "medium" -> 20
                                  [] issues[k].severity = "low" -> 10)])
        + (IF nodes[i].depth > 4 THEN 15 ELSE 0)
        + (IF Len(nodes[i].childIds) > 8 THEN 10 ELSE 0)
        + (IF nodes[i].estimatedTokens > 5000 THEN 20 ELSE 0)

\* C26: findHotspots scores a node with the sum of 30/20/10 per
\* high/medium/low issue naming it, plus 15 for depth > 4, 10 for more than
\* 8 children and 20 for estimatedTokens > 5000; it reports the node exactly
\* when that score is above 20, with the score min(score, 100), and the
\* list it returns is sorted by non-increasing score.
C26_HotspotScores ==
    (ret.op = "analyze" /\ ~ret.value.threw) =>
        LET nodes == ret.arg[1]
            hotspots == ret.value.hotspots
        IN  /\ \A i \in 1..Len(nodes) :
                    (\E k \in 1..Len(hotspots) : hotspots[k].nodeId = nodes[i].id)
                        <=> Points(i) > 20
            /\ \A k \in 1..Len(hotspots) :
                    \E i \in 1..Len(nodes) :
                        /\ nodes[i].id = hotspots[k].nodeId
                        /\ hotspots[k].score
                               = IF Points(i) < 100 THEN Points(i) ELSE 100
            /\ \A k \in 1..Len(hotspots) : \A j \in 1..Len(hotspots) :
                    (k # j) => hotspots[k].nodeId # hotspots[j].nodeId
            /\ \A k \in 1..(Len(hotspots) - 1) :
                    hotspots[k].score >= hotspots[k + 1].score

\* two hotspots: the second node of the list comes first, its score of more
\* than 100 points capped at 100, the first node follows with a lower score
C26_Witness ==
    /\ ret.op = "analyze"
    /\ ~ret.value.threw
    /\ Len(ret.value.hotspots) = 2
    /\ ret.value.hotspots[1].nodeId = 2
    /\ ret.value.hotspots[1].score = 100
    /\ Points(2) > 100
    /\ ret.value.hotspots[2].score < 100

====
